---- MODULE Spec2Model ----
(***************************************************************************)
(* A model of the UCNet scripts of FaderBridge (scripts/*.py): the frame   *)
(* builders, the batch and streaming frame decoders, the handshake         *)
(* scripts and the threaded UCDaemonClient.  Bytes are naturals 0..255,    *)
(* byte strings are sequences of bytes, and offsets are 0-based as in the  *)
(* Python source.  Each group of scripts has its own specification; the    *)
(* variables of the other groups stay at their idle values.                *)
(***************************************************************************)
EXTENDS Integers, Sequences, FiniteSets, TLC

VARIABLES
    enc,        \* frame builders: [builder, ptype, payload, out, done]
    rx,         \* streaming receivers: [who, stream, pos, buffer, handled, maxread]
    scen,       \* how rx.stream was put together: [kind, garbage, tag, payload, tail]
    dec,        \* batch decoding of one byte string: [decoder, data, pos, packets, spans, done]
    ses,        \* one run of a handshake script on one TCP connection
    ucd,        \* the UCDaemonClient object, its socket and its threads; ucd.refused
                \* is where (ucd.main) a call found no socket, ucd.old the buffers of
                \* the receive threads of earlier connections that still run
    lis,        \* the listen loop of listen_params.main
    prm,        \* one call of a parameter builder or decoder: [op, arg, out]
    dmp,        \* the packet loop of dump_state.main
    thr         \* a threaded client: its main thread, receive thread and socket;
                \* thr.last is how the last recv of the receive thread ended

vars == <<enc, rx, scen, dec, ses, ucd, lis, prm, dmp, thr>>

\* what the actions of one group of scripts leave alone
notCodec   == <<rx, scen, dec, ses, ucd, lis, prm, dmp, thr>>
notStream  == <<enc, dec, ses, ucd, lis, prm, dmp, thr>>
notBatch   == <<enc, rx, scen, ses, ucd, lis, prm, dmp, thr>>
notSession == <<enc, rx, scen, dec, ucd, lis, prm, dmp, thr>>
notUcd     == <<enc, rx, scen, dec, ses, lis, prm, dmp, thr>>
notListen  == <<enc, rx, scen, dec, ses, ucd, prm, dmp, thr>>
notParams  == <<enc, rx, scen, dec, ses, ucd, lis, dmp, thr>>
notDump    == <<enc, rx, scen, dec, ses, ucd, lis, prm, thr>>
notThreads == <<enc, rx, scen, dec, ses, ucd, lis, prm, dmp>>

(***************************************************************************)
(* Python's bytes operations                                               *)
(***************************************************************************)
SetMin(S) == CHOOSE x \in S : \A y \in S : x <= y

\* data[a:b] for 0 <= a; the slice is clamped to the string as in Python
Slice(data, a, b) ==
    LET hi == IF b < Len(data) THEN b ELSE Len(data)
    IN  IF hi <= a THEN <<>> ELSE SubSeq(data, a + 1, hi)

\* data[-n:]
LastN(data, n) ==
    IF Len(data) <= n THEN data ELSE SubSeq(data, Len(data) - n + 1, Len(data))

\* data.find(pat, start): lowest offset >= start where pat occurs, else -1
Find(data, pat, start) ==
    LET hits == {i \in start..(Len(data) - Len(pat)) :
                    SubSeq(data, i + 1, i + Len(pat)) = pat}
    IN  IF hits = {} THEN -1 ELSE SetMin(hits)

\* pat in data
Contains(data, pat) == Find(data, pat, 0) # -1

\* struct.pack('<H', n); n outside 0..65535 raises struct.error in Python
\* and is never passed by the inputs drawn here
pack_H(n) == <<n % 256, (n \div 256) % 256>>

\* struct.unpack('<H', b)[0] of a 2-byte string
unpack_H(b) == b[1] + 256 * b[2]

\* struct.pack('<I', n) for n < 2^32
pack_I(n) == <<n % 256, (n \div 256) % 256, (n \div 65536) % 256, (n \div 16777216) % 256>>

(***************************************************************************)
(* Protocol constants                                                      *)
(***************************************************************************)
MAGIC      == <<85, 67, 0, 1>>
TYPE_HELLO == <<85, 77>>
TYPE_JSON  == <<74, 77>>
TYPE_PV    == <<80, 86>>
TYPE_KA    == <<75, 65>>
TYPE_PS    == <<80, 83>>
TYPE_ZB    == <<90, 66>>

(***************************************************************************)
(* Frame builders                                                          *)
(***************************************************************************)
\* the builder with the type tag left out of the size field
build_packet_no_type(ptype, payload) ==
    MAGIC \o pack_H(Len(payload)) \o ptype \o payload

\* discover_parameters.build_packet (the same text is in test_mixer_control.py
\* and listen_params.py)
build_packet(ptype, payload) ==
    MAGIC \o pack_H(2 + Len(payload)) \o ptype \o payload

\* test_ucnet_network.build_packet
net_build_packet(payload_type, payload) ==
    MAGIC \o pack_H(2 + Len(payload)) \o payload_type \o payload

\* test_ucdaemon_control.build_ucnet_packet
build_ucnet_packet(payload_type, payload) ==
    MAGIC \o pack_H(Len(payload_type) + Len(payload)) \o payload_type \o payload

\* monitor_and_send.build_packet (the same text is in quick_test.py)
mon_build_packet(ptype, payload) ==
    MAGIC \o pack_H(Len(ptype) + Len(payload)) \o ptype \o payload

Builders == {"discover", "network", "ucdaemon", "monitor"}

Build(builder, ptype, payload) ==
    CASE builder = "discover" -> build_packet(ptype, payload)
      [] builder = "network"  -> net_build_packet(ptype, payload)
      [] builder = "ucdaemon" -> build_ucnet_packet(ptype, payload)
      [] builder = "monitor"  -> mon_build_packet(ptype, payload)

(***************************************************************************)
(* Inputs of the builders                                                  *)
(***************************************************************************)
MaxSmallLen == 6
\* lengths around the point where the size field needs its second byte
BigLens == {253, 254, 255, 300, 510, 767}
PayloadLens == (0..MaxSmallLen) \cup BigLens
PayloadFills == {0, 85, 250}
TypeTags == {TYPE_HELLO, TYPE_JSON, TYPE_PV, TYPE_KA, TYPE_PS, TYPE_ZB}

\* a payload of n bytes that differ from place to place
PayloadOf(n, fill) == [i \in 1..n |-> (fill + i - 1) % 256]

EncIdle == [builder |-> "none", ptype |-> <<>>, payload |-> <<>>, out |-> <<>>, done |-> FALSE]

InitCodec ==
    \E t \in TypeTags, n \in PayloadLens, f \in PayloadFills :
        enc = [builder |-> "none", ptype |-> t, payload |-> PayloadOf(n, f),
               out |-> <<>>, done |-> FALSE]

\* one call of a builder on the drawn type tag and payload
Encode(b) ==
    /\ ~enc.done
    /\ enc' = [enc EXCEPT !.builder = b, !.out = Build(b, enc.ptype, enc.payload),
                          !.done = TRUE]
    /\ UNCHANGED notCodec

NextCodec == \E b \in Builders : Encode(b)

RxIdle == [who |-> "none", stream |-> <<>>, pos |-> 0, buffer |-> <<>>,
           handled |-> <<>>, maxread |-> 0]
ScenIdle == [kind |-> "none", garbage |-> <<>>, tag |-> <<>>, payload |-> <<>>, tail |-> <<>>]
DecIdle == [decoder |-> "none", data |-> <<>>, pos |-> 0, packets |-> <<>>,
            spans |-> <<>>, done |-> FALSE]
SesIdle == [script |-> "none", pc |-> "none", peer |-> <<>>]
UcdIdle == [main |-> "none"]
LisIdle == [phase |-> "none"]
PrmIdle == [op |-> "none"]
DmpIdle == [phase |-> "none"]
ThrIdle == [client |-> "none", main |-> "none", t |-> "none", peer |-> "none"]

\* the groups of scripts that a specification does not run
IdleBut(group) ==
    /\ group # "codec"   => enc = EncIdle
    /\ group # "stream"  => rx = RxIdle /\ scen = ScenIdle
    /\ group # "batch"   => dec = DecIdle
    /\ group # "session" => ses = SesIdle
    /\ group # "ucd"     => ucd = UcdIdle
    /\ group # "listen"  => lis = LisIdle
    /\ group # "params"  => prm = PrmIdle
    /\ group # "dump"    => dmp = DmpIdle
    /\ group # "threads" => thr = ThrIdle

StartCodec == InitCodec /\ IdleBut("codec")

SpecCodec == StartCodec /\ [][NextCodec]_vars

\* C5: a built frame is MAGIC, the 16-bit little-endian value 2+len(payload),
\* the type tag and the payload; it is 8+len(payload) bytes long, 6 more than
\* its size field.
FrameEncoding ==
    enc.done =>
        LET r == enc.out
            p == enc.payload
        IN  /\ Len(r) = 8 + Len(p)
            /\ SubSeq(r, 1, 4) = <<85, 67, 0, 1>>
            /\ r[5] \in 0..255 /\ r[6] \in 0..255
            /\ r[5] + 256 * r[6] = 2 + Len(p)
            /\ SubSeq(r, 7, 8) = enc.ptype
            /\ SubSeq(r, 9, Len(r)) = p
            /\ Len(r) = 6 + r[5] + 256 * r[6]

\* a frame was built whose size needs the second byte of the field
FrameEncodingWitness ==
    /\ enc.done
    /\ enc.builder = "discover"
    /\ Len(enc.payload) >= 254
    /\ enc.out[6] > 0

(***************************************************************************)
(* monitor_and_send.py: the streaming decoder and its receiver thread      *)
(***************************************************************************)
None == [none |-> TRUE]

\* bytes.decode('ascii', errors='replace'): a byte above 127 becomes U+FFFD
decode_ascii(b) == [i \in 1..Len(b) |-> IF b[i] < 128 THEN b[i] ELSE 65533]

\* parse_packet without the completeness test of lines 90-91
parse_packet_no_wait(data, offset) ==
    IF Len(data) < offset + 8 THEN [pkt |-> None, off |-> offset]
    ELSE IF Slice(data, offset, offset + 4) # MAGIC THEN [pkt |-> None, off |-> offset + 1]
    ELSE LET size  == unpack_H(Slice(data, offset + 4, offset + 6))
             ptype == decode_ascii(Slice(data, offset + 6, offset + 8))
         IN  [pkt |-> [type |-> ptype, size |-> size,
                       payload |-> Slice(data, offset + 8, offset + 6 + size)],
              off |-> offset + 6 + size]

\* monitor_and_send.parse_packet: (packet or None, new offset)
parse_packet(data, offset) ==
    IF Len(data) < offset + 8 THEN [pkt |-> None, off |-> offset]
    ELSE IF Slice(data, offset, offset + 4) # MAGIC THEN [pkt |-> None, off |-> offset + 1]
    ELSE LET size  == unpack_H(Slice(data, offset + 4, offset + 6))
             ptype == decode_ascii(Slice(data, offset + 6, offset + 8))
         IN  IF Len(data) < offset + 6 + size
             THEN [pkt |-> None, off |-> offset]
             ELSE [pkt |-> [type |-> ptype, size |-> size,
                            payload |-> Slice(data, offset + 8, offset + 6 + size)],
                   off |-> offset + 6 + size]

\* one pass of the inner loop of receiver_thread (lines 109-141) at `offset`:
\* the new offset, the packets printed so far and whether the loop breaks
receiver_step(buffer, offset, handled) ==
    LET r == parse_packet(buffer, offset)
    IN  IF r.pkt = None
        THEN [off |-> r.off, handled |-> handled, brk |-> (r.off = offset)]
        ELSE [off |-> r.off, handled |-> Append(handled, r.pkt), brk |-> FALSE]

\* the inner loop of receiver_thread (lines 107-141) from `offset` on: the
\* offset it stops at and the packets it printed, in order
RECURSIVE receiver_parse(_, _, _)
receiver_parse(buffer, offset, handled) ==
    IF ~(offset < Len(buffer)) THEN [off |-> offset, handled |-> handled]
    ELSE LET s == receiver_step(buffer, offset, handled)
         IN  IF s.brk THEN [off |-> offset, handled |-> handled]
             ELSE receiver_parse(buffer, s.off, s.handled)

\* receiver_thread parsing each read alone, without the buffer of line 104
receiver_thread_read_no_buffer(buffer, handled, data) ==
    LET r == receiver_parse(data, 0, handled)
    IN  [buffer |-> Slice(data, r.off, Len(data)), handled |-> r.handled]

\* one pass of receiver_thread's outer loop on a read of `data` (non-empty):
\* the buffer kept (line 143) and the packets handled so far
receiver_thread_read(buffer, handled, data) ==
    LET b == buffer \o data
        r == receiver_parse(b, 0, handled)
    IN  [buffer |-> Slice(b, r.off, Len(b)), handled |-> r.handled]

(***************************************************************************)
(* test_ucdaemon_control.py: parse_ucnet_packet and the parsing loop of    *)
(* UCDaemonClient._receive_loop                                            *)
(***************************************************************************)
\* parse_ucnet_packet: a packet or None
parse_ucnet_packet(data) ==
    IF Len(data) < 8 THEN None
    ELSE IF Slice(data, 0, 4) # MAGIC THEN None
    ELSE LET size == unpack_H(Slice(data, 4, 6))
         IN  [type |-> decode_ascii(Slice(data, 6, 8)), size |-> size,
              payload |-> IF Len(data) >= 8 + size - 2
                          THEN Slice(data, 8, 8 + size - 2) ELSE <<>>]

\* the loop of lines 220-241: the buffer kept and the packets passed to
\* _handle_packet, in order
RECURSIVE receive_loop_parse(_, _)
receive_loop_parse(buffer, handled) ==
    IF ~(Len(buffer) >= 8) THEN [buffer |-> buffer, handled |-> handled]
    ELSE IF Slice(buffer, 0, 4) # MAGIC
    THEN LET idx == Find(buffer, MAGIC, 1)
         IN  IF idx > 0
             THEN receive_loop_parse(Slice(buffer, idx, Len(buffer)), handled)
             ELSE receive_loop_parse(<<>>, handled)
    ELSE LET size       == unpack_H(Slice(buffer, 4, 6))
             packet_len == 6 + size
         IN  IF Len(buffer) >= packet_len
             THEN LET pkt == parse_ucnet_packet(Slice(buffer, 0, packet_len))
                  IN  receive_loop_parse(Slice(buffer, packet_len, Len(buffer)),
                                         IF pkt # None THEN Append(handled, pkt)
                                         ELSE handled)
             ELSE [buffer |-> buffer, handled |-> handled]

\* one pass of _receive_loop's outer loop on a read of `data` (non-empty)
receive_loop_read(buffer, handled, data) == receive_loop_parse(buffer \o data, handled)

(***************************************************************************)
(* Streams fed to the two receivers                                        *)
(***************************************************************************)
MaxChunk == 3

KA_PAYLOAD == <<106, 0, 101, 0>>
\* token + "a" + NUL + 2 padding bytes + the float 0.5
PV_PAYLOAD == <<104, 0, 117, 0, 97, 0, 0, 0, 0, 0, 0, 63>>

\* valid frames by the tag and payload they carry
FramePairs ==
    {<<TYPE_KA, <<>>>>, <<TYPE_KA, KA_PAYLOAD>>, <<TYPE_HELLO, <<0, 0, 101, 0, 21, 250>>>>,
     <<TYPE_PV, PV_PAYLOAD>>, <<TYPE_PS, <<1>>>>, <<TYPE_ZB, MAGIC>>}

\* bytes that are no frame: without the magic, with a part of it, and the
\* magic followed by sizes that no following bytes fill
Garbage ==
    {<<9>>, <<0, 1>>, <<85>>, <<85, 67>>, <<85, 67, 0>>, <<9, 85, 67, 0, 9>>,
     <<1, 2, 3, 4, 5, 6, 7, 8, 9>>, MAGIC, MAGIC \o <<255>>, MAGIC \o <<255, 255>>,
     <<9>> \o MAGIC \o <<255, 255, 75, 65>>}

\* a magic with a size field larger than what follows it
CorruptHeaders ==
    {MAGIC \o <<255, 255>>, MAGIC \o <<40, 0>>, MAGIC \o <<40, 0, 75, 65, 9>>,
     MAGIC \o <<0, 1, 80, 86>>}

\* frames the peer sends after the valid one
Tails == {<<>>, build_packet(TYPE_KA, <<>>),
          build_packet(TYPE_KA, KA_PAYLOAD) \o build_packet(TYPE_KA, KA_PAYLOAD)
              \o build_packet(TYPE_KA, KA_PAYLOAD)}

Scenarios ==
    {[kind |-> "valid", garbage |-> <<>>, tag |-> f[1], payload |-> f[2], tail |-> <<>>] :
        f \in FramePairs}
    \cup
    {[kind |-> "garbage", garbage |-> g, tag |-> f[1], payload |-> f[2], tail |-> <<>>] :
        g \in Garbage, f \in FramePairs}
    \cup
    {[kind |-> "corrupt", garbage |-> g, tag |-> f[1], payload |-> f[2], tail |-> t] :
        g \in CorruptHeaders, f \in FramePairs, t \in Tails}

ScenFrame == build_packet(scen.tag, scen.payload)
ScenStream(s) == s.garbage \o build_packet(s.tag, s.payload) \o s.tail

InitStream ==
    /\ scen \in Scenarios
    /\ \E w \in {"monitor", "ucdaemon"} :
          rx = [who |-> w, stream |-> ScenStream(scen), pos |-> 0, buffer |-> <<>>,
                handled |-> <<>>, maxread |-> 0]

\* sock.recv returns the next k bytes of the stream; receiver_thread appends
\* them, parses and trims its buffer
MonitorRecv(k) ==
    /\ rx.who = "monitor"
    /\ rx.pos + k <= Len(rx.stream)
    /\ LET data == SubSeq(rx.stream, rx.pos + 1, rx.pos + k)
           r    == receiver_thread_read(rx.buffer, rx.handled, data)
       IN  rx' = [rx EXCEPT !.pos = rx.pos + k, !.buffer = r.buffer,
                            !.handled = r.handled,
                            !.maxread = IF k > rx.maxread THEN k ELSE rx.maxread]
    /\ UNCHANGED <<scen>>
    /\ UNCHANGED notStream

\* the same read in UCDaemonClient._receive_loop
UcdaemonRecv(k) ==
    /\ rx.who = "ucdaemon"
    /\ rx.pos + k <= Len(rx.stream)
    /\ LET data == SubSeq(rx.stream, rx.pos + 1, rx.pos + k)
           r    == receive_loop_read(rx.buffer, rx.handled, data)
       IN  rx' = [rx EXCEPT !.pos = rx.pos + k, !.buffer = r.buffer,
                            !.handled = r.handled,
                            !.maxread = IF k > rx.maxread THEN k ELSE rx.maxread]
    /\ UNCHANGED <<scen>>
    /\ UNCHANGED notStream

NextStream == \E k \in 1..MaxChunk : MonitorRecv(k) \/ UcdaemonRecv(k)

StartStream == InitStream /\ IdleBut("stream")

SpecStream == StartStream /\ [][NextStream]_vars

\* the tag and payload of every handled packet
Handled == [i \in 1..Len(rx.handled) |-> <<rx.handled[i].type, rx.handled[i].payload>>]

\* C7: a valid frame delivered one byte per read: nothing is handled and
\* nothing is consumed at any strict prefix; once the last byte is in,
\* exactly that frame has been handled.
PartialFrameHandling ==
    (scen.kind = "valid" /\ rx.maxread <= 1) =>
        /\ rx.pos < Len(rx.stream) =>
              rx.handled = <<>> /\ rx.buffer = SubSeq(rx.stream, 1, rx.pos)
        /\ rx.pos = Len(rx.stream) =>
              Handled = <<(<<scen.tag, scen.payload>>)>> /\ rx.buffer = <<>>

\* the last of the one-byte reads of a frame with a payload has been handled
PartialFrameWitness ==
    /\ scen.kind = "valid"
    /\ rx.who = "monitor"
    /\ rx.maxread = 1
    /\ rx.pos = Len(rx.stream)
    /\ Len(scen.payload) > 4
    /\ Len(rx.handled) = 1

\* C8: garbage followed by one valid frame, in monitor_and_send: exactly that
\* frame is decoded and the garbage is consumed.
Resynchronisation ==
    (scen.kind = "garbage" /\ rx.who = "monitor" /\ rx.pos = Len(rx.stream)) =>
        Handled = <<(<<scen.tag, scen.payload>>)>> /\ rx.buffer = <<>>

\* C9: a magic with a size larger than what follows, then a valid frame:
\* once the valid frame has arrived it has been handled.
CorruptSizeDoesNotBlock ==
    (scen.kind = "corrupt" /\ rx.pos >= Len(scen.garbage) + Len(ScenFrame)) =>
        \E i \in 1..Len(rx.handled) : Handled[i] = <<scen.tag, scen.payload>>

\* C33: garbage that holds no magic, then one valid frame, read by
\* UCDaemonClient._receive_loop: however the stream is split into reads, the
\* frame is handled exactly once when all of it has arrived, and never more
\* than once.
ResynchronisationKeepsFrame ==
    (scen.kind = "garbage" /\ ~Contains(scen.garbage, MAGIC)
        /\ rx.who = "ucdaemon") =>
        /\ Len(rx.handled) <= 1
        /\ rx.pos = Len(rx.stream) => Handled = <<(<<scen.tag, scen.payload>>)>>

(***************************************************************************)
(* discover_parameters.py: the batch decoder parse_packets                 *)
(***************************************************************************)
\* one pass of the while loop of parse_packets (lines 76-99) at `pos`
parse_packets_step(data, pos, packets) ==
    LET idx == Find(data, MAGIC, pos)
    IN  IF idx = -1 THEN [pos |-> pos, packets |-> packets, brk |-> TRUE]
        ELSE IF idx + 8 > Len(data) THEN [pos |-> pos, packets |-> packets, brk |-> TRUE]
        ELSE LET size  == unpack_H(Slice(data, idx + 4, idx + 6))
                 ptype == Slice(data, idx + 6, idx + 8)
             IN  IF idx + 6 + size > Len(data)
                 THEN [pos |-> idx + 1, packets |-> packets, brk |-> FALSE]
                 ELSE [pos |-> idx + 6 + size,
                       packets |-> Append(packets,
                           [offset |-> idx, size |-> size, type |-> ptype,
                            payload |-> Slice(data, idx + 8, idx + 6 + size)]),
                       brk |-> FALSE]

RECURSIVE parse_packets_from(_, _, _)
parse_packets_from(data, pos, packets) ==
    IF ~(pos < Len(data) - 8) THEN packets
    ELSE LET s == parse_packets_step(data, pos, packets)
         IN  IF s.brk THEN s.packets ELSE parse_packets_from(data, s.pos, s.packets)

\* discover_parameters.parse_packets
parse_packets(data) == parse_packets_from(data, 0, <<>>)

(***************************************************************************)
(* Both decoders run over one byte string, pass by pass                    *)
(***************************************************************************)
MaxPieces == 4
Pieces == {MAGIC, <<0, 0>>, <<1, 0>>, <<2, 0>>, <<4, 0>>, <<75, 65>>, <<9>>, <<85, 67>>}

RECURSIVE Joined(_)
Joined(n) == IF n = 0 THEN {<<>>}
             ELSE LET shorter == Joined(n - 1)
                  IN  shorter \cup {s \o p : s \in shorter, p \in Pieces}

InitBatch ==
    \E d \in Joined(MaxPieces), w \in {"discover", "monitor"} :
        dec = [decoder |-> w, data |-> d, pos |-> 0, packets |-> <<>>,
               spans |-> <<>>, done |-> FALSE]

\* a pass of the loop of discover_parameters.parse_packets
ParsePacketsPass ==
    /\ dec.decoder = "discover" /\ ~dec.done
    /\ IF ~(dec.pos < Len(dec.data) - 8)
       THEN dec' = [dec EXCEPT !.done = TRUE]
       ELSE LET s == parse_packets_step(dec.data, dec.pos, dec.packets)
            IN  dec' = [dec EXCEPT
                    !.pos = s.pos, !.packets = s.packets, !.done = s.brk,
                    !.spans = IF Len(s.packets) > Len(dec.packets)
                              THEN Append(dec.spans,
                                          <<s.packets[Len(s.packets)].offset, s.pos>>)
                              ELSE dec.spans]
    /\ UNCHANGED notBatch

\* a pass of receiver_thread's inner loop, which calls parse_packet
ParsePacketPass ==
    /\ dec.decoder = "monitor" /\ ~dec.done
    /\ IF ~(dec.pos < Len(dec.data))
       THEN dec' = [dec EXCEPT !.done = TRUE]
       ELSE LET s == receiver_step(dec.data, dec.pos, dec.packets)
            IN  dec' = [dec EXCEPT
                    !.pos = IF s.brk THEN dec.pos ELSE s.off,
                    !.packets = s.handled, !.done = s.brk,
                    !.spans = IF Len(s.handled) > Len(dec.packets)
                              THEN Append(dec.spans, <<dec.pos, s.off>>)
                              ELSE dec.spans]
    /\ UNCHANGED notBatch

NextBatch == ParsePacketsPass \/ ParsePacketPass

StartBatch == InitBatch /\ IdleBut("batch")

SpecBatch == StartBatch /\ [][NextBatch]_vars

\* C6: every returned frame has a size field >= 2 and a payload of size-2
\* bytes, the decoder advances by 8+len(payload) over it, and the byte
\* ranges of two returned frames do not overlap.
DecodedFrameInvariant ==
    \A i \in 1..Len(dec.packets) :
        LET p  == dec.packets[i]
            at == dec.spans[i][1]
        IN  /\ p.size >= 2
            /\ Len(p.payload) = p.size - 2
            /\ dec.spans[i][2] - at = 8 + Len(p.payload)
            /\ \A j \in 1..(i - 1) :
                  dec.spans[j][1] + 8 + Len(dec.packets[j].payload) <= at

(***************************************************************************)
(* The handshake scripts: discover_parameters.py (test_parameter,          *)
(* interactive_mode), test_mixer_control.py, quick_test.py and             *)
(* replay_uc_packet.py                                                     *)
(***************************************************************************)
\* json.dumps of the Subscribe request, 262 bytes
DISCOVER_SUBSCRIBE_JSON ==
    <<123, 34, 105, 100, 34, 58, 32, 34, 83, 117, 98, 115, 99, 114, 105, 98, 101, 34, 44,
      32, 34, 99, 108, 105, 101, 110, 116, 78, 97, 109, 101, 34, 58, 32, 34, 85, 110, 105,
      118, 101, 114, 115, 97, 108, 32, 67, 111, 110, 116, 114, 111, 108, 34, 44, 32, 34,
      99, 108, 105, 101, 110, 116, 73, 110, 116, 101, 114, 110, 97, 108, 78, 97, 109, 101,
      34, 58, 32, 34, 117, 99, 97, 112, 112, 34, 44, 32, 34, 99, 108, 105, 101, 110, 116,
      84, 121, 112, 101, 34, 58, 32, 34, 77, 97, 99, 34, 44, 32, 34, 99, 108, 105, 101,
      110, 116, 68, 101, 115, 99, 114, 105, 112, 116, 105, 111, 110, 34, 58, 32, 34, 80,
      97, 114, 97, 109, 101, 116, 101, 114, 68, 105, 115, 99, 111, 118, 101, 114, 121, 34,
      44, 32, 34, 99, 108, 105, 101, 110, 116, 73, 100, 101, 110, 116, 105, 102, 105, 101,
      114, 34, 58, 32, 34, 80, 97, 114, 97, 109, 101, 116, 101, 114, 68, 105, 115, 99, 111,
      118, 101, 114, 121, 34, 44, 32, 34, 99, 108, 105, 101, 110, 116, 79, 112, 116, 105,
      111, 110, 115, 34, 58, 32, 34, 112, 101, 114, 109, 32, 117, 115, 101, 114, 115, 32,
      108, 101, 118, 108, 32, 114, 101, 100, 117, 32, 114, 116, 97, 110, 34, 44, 32, 34,
      99, 108, 105, 101, 110, 116, 69, 110, 99, 111, 100, 105, 110, 103, 34, 58, 32, 50,
      51, 49, 48, 54, 125>>

\* json.dumps of the Subscribe request, 248 bytes
MIXER_SUBSCRIBE_JSON ==
    <<123, 34, 105, 100, 34, 58, 32, 34, 83, 117, 98, 115, 99, 114, 105, 98, 101, 34, 44,
      32, 34, 99, 108, 105, 101, 110, 116, 78, 97, 109, 101, 34, 58, 32, 34, 85, 110, 105,
      118, 101, 114, 115, 97, 108, 32, 67, 111, 110, 116, 114, 111, 108, 34, 44, 32, 34,
      99, 108, 105, 101, 110, 116, 73, 110, 116, 101, 114, 110, 97, 108, 78, 97, 109, 101,
      34, 58, 32, 34, 117, 99, 97, 112, 112, 34, 44, 32, 34, 99, 108, 105, 101, 110, 116,
      84, 121, 112, 101, 34, 58, 32, 34, 77, 97, 99, 34, 44, 32, 34, 99, 108, 105, 101,
      110, 116, 68, 101, 115, 99, 114, 105, 112, 116, 105, 111, 110, 34, 58, 32, 34, 70,
      97, 100, 101, 114, 66, 114, 105, 100, 103, 101, 34, 44, 32, 34, 99, 108, 105, 101,
      110, 116, 73, 100, 101, 110, 116, 105, 102, 105, 101, 114, 34, 58, 32, 34, 70, 97,
      100, 101, 114, 66, 114, 105, 100, 103, 101, 34, 44, 32, 34, 99, 108, 105, 101, 110,
      116, 79, 112, 116, 105, 111, 110, 115, 34, 58, 32, 34, 112, 101, 114, 109, 32, 117,
      115, 101, 114, 115, 32, 108, 101, 118, 108, 32, 114, 101, 100, 117, 32, 114, 116, 97,
      110, 34, 44, 32, 34, 99, 108, 105, 101, 110, 116, 69, 110, 99, 111, 100, 105, 110,
      103, 34, 58, 32, 50, 51, 49, 48, 54, 125>>

\* json.dumps of the Subscribe request, 257 bytes
QUICK_SUBSCRIBE_JSON ==
    <<123, 34, 105, 100, 34, 58, 32, 34, 83, 117, 98, 115, 99, 114, 105, 98, 101, 34, 44,
      32, 34, 99, 108, 105, 101, 110, 116, 78, 97, 109, 101, 34, 58, 32, 34, 85, 110, 105,
      118, 101, 114, 115, 97, 108, 32, 67, 111, 110, 116, 114, 111, 108, 34, 44, 32, 34,
      99, 108, 105, 101, 110, 116, 73, 110, 116, 101, 114, 110, 97, 108, 78, 97, 109, 101,
      34, 58, 32, 34, 117, 99, 97, 112, 112, 34, 44, 32, 34, 99, 108, 105, 101, 110, 116,
      84, 121, 112, 101, 34, 58, 32, 34, 80, 67, 34, 44, 32, 34, 99, 108, 105, 101, 110,
      116, 68, 101, 115, 99, 114, 105, 112, 116, 105, 111, 110, 34, 58, 32, 34, 85, 110,
      105, 118, 101, 114, 115, 97, 108, 32, 67, 111, 110, 116, 114, 111, 108, 34, 44, 32,
      34, 99, 108, 105, 101, 110, 116, 73, 100, 101, 110, 116, 105, 102, 105, 101, 114, 34,
      58, 32, 34, 70, 97, 100, 101, 114, 66, 114, 105, 100, 103, 101, 45, 48, 48, 49, 34,
      44, 32, 34, 99, 108, 105, 101, 110, 116, 79, 112, 116, 105, 111, 110, 115, 34, 58,
      32, 34, 112, 101, 114, 109, 32, 117, 115, 101, 114, 115, 32, 108, 101, 118, 108, 32,
      114, 101, 100, 117, 32, 114, 116, 97, 110, 34, 44, 32, 34, 99, 108, 105, 101, 110,
      116, 69, 110, 99, 111, 100, 105, 110, 103, 34, 58, 32, 50, 51, 49, 48, 54, 125>>

\* json.dumps of the Subscribe request, 263 bytes
REPLAY_SUBSCRIBE_JSON ==
    <<123, 34, 105, 100, 34, 58, 32, 34, 83, 117, 98, 115, 99, 114, 105, 98, 101, 34, 44,
      32, 34, 99, 108, 105, 101, 110, 116, 78, 97, 109, 101, 34, 58, 32, 34, 70, 97, 100,
      101, 114, 66, 114, 105, 100, 103, 101, 34, 44, 32, 34, 99, 108, 105, 101, 110, 116,
      73, 110, 116, 101, 114, 110, 97, 108, 78, 97, 109, 101, 34, 58, 32, 34, 102, 97, 100,
      101, 114, 98, 114, 105, 100, 103, 101, 34, 44, 32, 34, 99, 108, 105, 101, 110, 116,
      84, 121, 112, 101, 34, 58, 32, 34, 80, 67, 34, 44, 32, 34, 99, 108, 105, 101, 110,
      116, 68, 101, 115, 99, 114, 105, 112, 116, 105, 111, 110, 34, 58, 32, 34, 70, 97,
      100, 101, 114, 66, 114, 105, 100, 103, 101, 32, 77, 73, 68, 73, 32, 67, 111, 110,
      116, 114, 111, 108, 108, 101, 114, 34, 44, 32, 34, 99, 108, 105, 101, 110, 116, 73,
      100, 101, 110, 116, 105, 102, 105, 101, 114, 34, 58, 32, 34, 70, 97, 100, 101, 114,
      66, 114, 105, 100, 103, 101, 34, 44, 32, 34, 99, 108, 105, 101, 110, 116, 79, 112,
      116, 105, 111, 110, 115, 34, 58, 32, 34, 112, 101, 114, 109, 32, 117, 115, 101, 114,
      115, 32, 108, 101, 118, 108, 32, 114, 101, 100, 117, 32, 114, 116, 97, 110, 34, 44,
      32, 34, 99, 108, 105, 101, 110, 116, 69, 110, 99, 111, 100, 105, 110, 103, 34, 58,
      32, 50, 51, 49, 48, 54, 125>>

\* 'main/ch1/volume'
KEY_MAIN_CH1_VOLUME ==
    <<109, 97, 105, 110, 47, 99, 104, 49, 47, 118, 111, 108, 117, 109, 101>>

\* 'global/mainOutVolume'
KEY_MAIN_OUT_VOLUME ==
    <<103, 108, 111, 98, 97, 108, 47, 109, 97, 105, 110, 79, 117, 116, 86, 111, 108, 117,
      109, 101>>

\* 'SubscriptionReply'
SUBSCRIPTION_REPLY ==
    <<83, 117, 98, 115, 99, 114, 105, 112, 116, 105, 111, 110, 82, 101, 112, 108, 121>>

\* 'SubscriptionLost'
SUBSCRIPTION_LOST ==
    <<83, 117, 98, 115, 99, 114, 105, 112, 116, 105, 111, 110, 76, 111, 115, 116>>

\* '{"id": "SubscriptionReply"}'
REPLY_JSON ==
    <<123, 34, 105, 100, 34, 58, 32, 34, 83, 117, 98, 115, 99, 114, 105, 112, 116, 105,
      111, 110, 82, 101, 112, 108, 121, 34, 125>>

\* '{"id": "SubscriptionLost"}'
LOST_JSON ==
    <<123, 34, 105, 100, 34, 58, 32, 34, 83, 117, 98, 115, 99, 114, 105, 112, 116, 105,
      111, 110, 76, 111, 115, 116, 34, 125>>

\* struct.pack('<f', v) for the values the scripts are run with, v in
\* thousandths: 0.0, 0.1, 0.25, 0.5, 1.0 and -10.0
pack_f(v) ==
    CASE v = 0      -> <<0, 0, 0, 0>>
      [] v = 100    -> <<205, 204, 204, 61>>
      [] v = 250    -> <<0, 0, 128, 62>>
      [] v = 500    -> <<0, 0, 0, 63>>
      [] v = 1000   -> <<0, 0, 128, 63>>
      [] v = -10000 -> <<0, 0, 32, 193>>

\* max(0.0, min(1.0, value)), in thousandths
clamp01(v) == IF v < 0 THEN 0 ELSE IF v > 1000 THEN 1000 ELSE v

\* the CBytes 'r' 'e' of Universal Control
UC_CBYTES == <<114, 0, 101, 0>>
\* the default session CBytes 'e' 'j' of test_parameter and test_mixer_control
EJ_CBYTES == <<101, 0, 106, 0>>

HELLO_PAYLOAD == <<0, 0, 101, 0, 21, 250>>

\* discover_parameters.build_hello
build_hello == build_packet(TYPE_HELLO, HELLO_PAYLOAD)

\* discover_parameters.build_subscribe
build_subscribe ==
    build_packet(TYPE_JSON, <<114, 0, 101, 0>> \o pack_I(Len(DISCOVER_SUBSCRIBE_JSON))
                                \o DISCOVER_SUBSCRIBE_JSON)

\* test_mixer_control.build_subscribe
mixer_build_subscribe ==
    build_packet(TYPE_JSON, <<114, 0, 101, 0>> \o pack_I(Len(MIXER_SUBSCRIBE_JSON))
                                \o MIXER_SUBSCRIBE_JSON)

\* quick_test.build_hello and build_subscribe
quick_build_hello == mon_build_packet(TYPE_HELLO, HELLO_PAYLOAD)
quick_build_subscribe ==
    mon_build_packet(TYPE_JSON, <<107, 0, 101, 0>> \o pack_I(Len(QUICK_SUBSCRIBE_JSON))
                                    \o QUICK_SUBSCRIBE_JSON)

\* quick_test.build_param
quick_build_param(path, value) ==
    mon_build_packet(TYPE_PV, <<117, 0, 104, 0>> \o path \o <<0, 0, 0>> \o pack_f(value))

\* replay_uc_packet.main, lines 57 and 83-87: the Hello and Subscribe packets
replay_hello == <<85, 67, 0, 1, 8, 0, 85, 77, 0, 0, 101, 0, 21, 250>>
replay_sub_packet ==
    LET sub_payload == <<106, 0, 101, 0>> \o pack_I(Len(REPLAY_SUBSCRIBE_JSON))
                           \o REPLAY_SUBSCRIBE_JSON
    IN  MAGIC \o pack_H(2 + Len(sub_payload)) \o TYPE_JSON \o sub_payload

\* replay_uc_packet.main, lines 32-45: the packet built before connecting
replay_packet(value) ==
    LET payload == <<114, 0, 101, 0>> \o KEY_MAIN_CH1_VOLUME \o <<0>> \o <<0, 0>>
                       \o pack_f(value)
    IN  MAGIC \o pack_H(2 + Len(payload)) \o TYPE_PV \o payload

\* replay_uc_packet.main, lines 198-205, with ptype still a bytes object
replay_packet_with_session(session_cbytes, ptype, value) ==
    LET pv_payload == session_cbytes \o KEY_MAIN_CH1_VOLUME \o <<0>> \o <<0, 0>>
                          \o pack_f(value)
    IN  MAGIC \o pack_H(2 + Len(pv_payload)) \o ptype \o pv_payload

\* discover_parameters.build_pv (the same text is in test_mixer_control.py)
build_pv(key, value, cbytes) ==
    build_packet(TYPE_PV, cbytes \o key \o <<0>> \o <<0, 0>> \o pack_f(value))

SetMax(S) == CHOOSE x \in S : \A y \in S : x >= y

\* the search for the session CBytes (test_parameter lines 313-320,
\* interactive_mode 369-375, test_mixer_control.main 121-128,
\* replay_uc_packet.main 159-167): `back` is 50 and `default` the initial value
extract_session_cbytes(state, default, back) ==
    LET idx == Find(state, SUBSCRIPTION_REPLY, 0)
    IN  IF idx > 0
        THEN LET lo   == IF idx - back > 0 THEN idx - back ELSE 0
                 hits == {i \in (lo + 1)..idx :
                             /\ Slice(state, i, i + 4) = MAGIC
                             /\ Slice(state, i + 6, i + 8) = TYPE_JSON}
             IN  IF hits = {} THEN default
                 ELSE Slice(state, SetMax(hits) + 8, SetMax(hits) + 12)
        ELSE default

\* a local variable of replay_uc_packet.main that is bound to bytes or to str
BytesVal(b) == [kind |-> "bytes", val |-> b]
StrVal(b)   == [kind |-> "str", val |-> b]

\* replay_uc_packet.main lines 110-125: what ptype is bound to afterwards
replay_find_reply(all_resp, ptype) ==
    IF ~Contains(all_resp, SUBSCRIPTION_REPLY) THEN ptype
    ELSE LET idx == Find(all_resp, SUBSCRIPTION_REPLY, 0)
         IN  IF idx > 8
             THEN LET lo   == IF idx - 100 > 0 THEN idx - 100 ELSE 0
                      hits == {i \in (lo + 1)..idx : Slice(all_resp, i, i + 4) = MAGIC}
                  IN  IF hits = {} THEN ptype
                      ELSE BytesVal(Slice(all_resp, SetMax(hits) + 6, SetMax(hits) + 8))
             ELSE ptype

\* the packet-type scans of replay_uc_packet.main (lines 130-138 with margin
\* 8, lines 170-193 with margin 10): what ptype is bound to afterwards
RECURSIVE replay_scan(_, _, _, _)
replay_scan(data, pos, margin, ptype) ==
    IF ~(pos < Len(data) - margin) THEN ptype
    ELSE IF Slice(data, pos, pos + 4) = MAGIC
    THEN replay_scan(data, pos + 6 + unpack_H(Slice(data, pos + 4, pos + 6)), margin,
                     StrVal(decode_ascii(Slice(data, pos + 6, pos + 8))))
    ELSE replay_scan(data, pos + 1, margin, ptype)

(***************************************************************************)
(* What the peer sends after the Subscribe request                         *)
(***************************************************************************)
\* a JM frame with CBytes and a JSON body, as the peer sends it
peer_json_frame(cbytes, json) ==
    build_packet(TYPE_JSON, cbytes \o pack_I(Len(json)) \o json)

PeerTokens == {<<114, 0, 101, 0>>, <<101, 0, 106, 0>>, <<101, 0, 114, 0>>}
PeerLeads  == {<<>>, build_packet(TYPE_KA, KA_PAYLOAD)}
PeerTrails == {<<>>, build_packet(TYPE_PV, PV_PAYLOAD)}

PeerPlans ==
    {[kind |-> "none", token |-> <<>>, lead |-> l, reply |-> <<>>, trail |-> t] :
        l \in PeerLeads, t \in PeerTrails}
    \cup
    {[kind |-> "accept", token |-> c, lead |-> l,
      reply |-> peer_json_frame(c, REPLY_JSON), trail |-> t] :
        c \in PeerTokens, l \in PeerLeads, t \in PeerTrails}
    \cup
    {[kind |-> "reject", token |-> c, lead |-> l,
      reply |-> peer_json_frame(c, LOST_JSON), trail |-> t] :
        c \in {<<101, 0, 114, 0>>}, l \in PeerLeads, t \in PeerTrails}

PeerStream(p) == p.lead \o p.reply \o p.trail

\* the numbers of bytes a receive step can end at: frame boundaries and a
\* point inside the reply
Cuts(p) ==
    {0, Len(p.lead), Len(p.lead) + Len(p.reply), Len(PeerStream(p))}
    \cup (IF p.reply # <<>> THEN {Len(p.lead) + 12} ELSE {})

Scripts == {"test_parameter", "interactive_mode", "test_mixer_control",
            "quick_test", "replay_uc_packet"}
Keys    == {KEY_MAIN_CH1_VOLUME, <<97>>}
Values  == {250, 1000}
MaxCommands == 2

InitSession ==
    \E sc \in Scripts, p \in PeerPlans, k \in Keys, v \in Values :
        /\ sc \in {"test_mixer_control", "replay_uc_packet", "quick_test",
                   "interactive_mode"} => k = KEY_MAIN_CH1_VOLUME
        /\ sc \in {"quick_test", "interactive_mode"} => v = 250
        /\ ses = [script |-> sc, pc |-> "connected", plan |-> p, peer |-> PeerStream(p),
                  nrecv |-> 0, state |-> <<>>, state_data |-> <<>>,
                  session_cbytes |-> None, ptype |-> BytesVal(TYPE_PV),
                  sent |-> <<>>, sentAt |-> <<>>, key |-> k, value |-> v,
                  cmds |-> 0, error |-> FALSE]

\* sock.send / sock.sendall of one frame
Written(frame) ==
    [ses EXCEPT !.sent = Append(ses.sent, frame), !.sentAt = Append(ses.sentAt, ses.nrecv)]

\* the bytes that arrive when the receive position moves on to k
Arriving(k) == Slice(ses.peer, ses.nrecv, k)

\* the Hello packet is sent first
SendHello ==
    /\ ses.script \in Scripts /\ ses.pc = "connected"
    /\ ses' = [Written(CASE ses.script = "quick_test" -> quick_build_hello
                         [] ses.script = "replay_uc_packet" -> replay_hello
                         [] OTHER -> build_hello)
                  EXCEPT !.pc = IF ses.script = "replay_uc_packet"
                                THEN "hello_response" ELSE "hello_sent"]
    /\ UNCHANGED notSession

\* replay_uc_packet.main lines 62-69: one recv after Hello, printed and dropped
ReplayHelloResponse(k) ==
    /\ ses.script = "replay_uc_packet" /\ ses.pc = "hello_response"
    /\ k \in {0, Len(ses.plan.lead)}
    /\ ses' = [ses EXCEPT !.nrecv = k, !.pc = "hello_sent"]
    /\ UNCHANGED notSession

\* the Subscribe packet follows
SendSubscribe ==
    /\ ses.script \in Scripts /\ ses.pc = "hello_sent"
    /\ ses' = [Written(CASE ses.script = "quick_test" -> quick_build_subscribe
                         [] ses.script = "replay_uc_packet" -> replay_sub_packet
                         [] ses.script = "test_mixer_control" -> mixer_build_subscribe
                         [] OTHER -> build_subscribe)
                  EXCEPT !.pc = IF ses.script = "quick_test" THEN "drain" ELSE "collect"]
    /\ UNCHANGED notSession

\* the collecting loop (connect_and_subscribe lines 199-212,
\* test_mixer_control.main 101-110, replay_uc_packet.main 94-105): what has
\* arrived when it ends is the state
Collect(k) ==
    /\ ses.script \in Scripts \ {"quick_test"} /\ ses.pc = "collect"
    /\ k \in Cuts(ses.plan) /\ k >= ses.nrecv
    /\ ses' = [ses EXCEPT !.state = Arriving(k), !.nrecv = k,
                          !.pc = IF ses.script = "replay_uc_packet"
                                 THEN "inspect" ELSE "extract"]
    /\ UNCHANGED notSession

\* the search for the session CBytes in the collected state
ExtractSessionCBytes ==
    /\ ses.script \in {"test_parameter", "interactive_mode", "test_mixer_control"}
    /\ ses.pc = "extract"
    /\ ses' = [ses EXCEPT
            !.session_cbytes =
                extract_session_cbytes(ses.state,
                    IF ses.script = "interactive_mode" THEN UC_CBYTES ELSE EJ_CBYTES, 50),
            !.pc = IF ses.script = "interactive_mode" THEN "prompt" ELSE "drain"]
    /\ UNCHANGED notSession

\* replay_uc_packet.main lines 109-138
ReplayInspect ==
    /\ ses.script = "replay_uc_packet" /\ ses.pc = "inspect"
    /\ ses' = [ses EXCEPT
            !.ptype = replay_scan(ses.state, 0, 8, replay_find_reply(ses.state, ses.ptype)),
            !.pc = "drain"]
    /\ UNCHANGED notSession

\* the draining loop (test_parameter lines 323-328, test_mixer_control.main
\* 134-139, quick_test.main 96-100, replay_uc_packet.main 144-154)
Drain(k) ==
    /\ ses.script \in Scripts \ {"interactive_mode"} /\ ses.pc = "drain"
    /\ k \in Cuts(ses.plan) /\ k >= ses.nrecv
    /\ ses' = [ses EXCEPT
            !.state_data = IF ses.script = "replay_uc_packet" THEN Arriving(k) ELSE <<>>,
            !.nrecv = k,
            !.pc = IF ses.script = "replay_uc_packet" THEN "extract2" ELSE "send1"]
    /\ UNCHANGED notSession

\* replay_uc_packet.main lines 158-195
ReplayExtract ==
    /\ ses.script = "replay_uc_packet" /\ ses.pc = "extract2"
    /\ ses' = [ses EXCEPT
            !.session_cbytes = extract_session_cbytes(ses.state_data, None, 50),
            !.ptype = replay_scan(ses.state_data, 0, 10, ses.ptype),
            !.pc = "send1"]
    /\ UNCHANGED notSession

\* the PV packet with the session CBytes (test_parameter lines 334-336,
\* test_mixer_control.main 143-145)
SendSessionPV ==
    /\ ses.script \in {"test_parameter", "test_mixer_control"} /\ ses.pc = "send1"
    /\ ses' = [Written(IF ses.script = "test_parameter"
                       THEN build_pv(ses.key, ses.value, ses.session_cbytes)
                       ELSE build_pv(KEY_MAIN_CH1_VOLUME, clamp01(ses.value),
                                     ses.session_cbytes))
                  EXCEPT !.pc = "send2"]
    /\ UNCHANGED notSession

\* replay_uc_packet.main lines 201-209: bytes + str raises TypeError, which
\* the handler of line 229 prints before the socket is closed
ReplaySendSession ==
    /\ ses.script = "replay_uc_packet" /\ ses.pc = "send1"
    /\ IF ses.session_cbytes = None \/ ses.session_cbytes = <<>>
       THEN ses' = [ses EXCEPT !.pc = "send2"]
       ELSE IF ses.ptype.kind = "str"
       THEN ses' = [ses EXCEPT !.pc = "closed", !.error = TRUE]
       ELSE ses' = [Written(replay_packet_with_session(ses.session_cbytes, ses.ptype.val,
                                                       clamp01(ses.value)))
                       EXCEPT !.pc = "send2"]
    /\ UNCHANGED notSession

\* the PV packet with the CBytes of Universal Control (test_parameter lines
\* 340-341, test_mixer_control.main 150-152, replay_uc_packet.main 212-213)
SendUcPV ==
    /\ ses.script \in {"test_parameter", "test_mixer_control", "replay_uc_packet"}
    /\ ses.pc = "send2"
    /\ ses' = [Written(CASE ses.script = "test_parameter" ->
                               build_pv(ses.key, ses.value, <<114, 0, 101, 0>>)
                         [] ses.script = "test_mixer_control" ->
                               build_pv(KEY_MAIN_CH1_VOLUME, clamp01(ses.value),
                                        <<114, 0, 101, 0>>)
                         [] ses.script = "replay_uc_packet" ->
                               replay_packet(clamp01(ses.value)))
                  EXCEPT !.pc = "response"]
    /\ UNCHANGED notSession

\* quick_test.main lines 105-111
QuickSendParam ==
    /\ ses.script = "quick_test" /\ ses.pc = "send1"
    /\ ses' = [Written(quick_build_param(KEY_MAIN_OUT_VOLUME, 100)) EXCEPT !.pc = "closed"]
    /\ UNCHANGED notSession

\* the last recv and the close
ReadResponse(k) ==
    /\ ses.pc = "response"
    /\ k \in Cuts(ses.plan) /\ k >= ses.nrecv
    /\ ses' = [ses EXCEPT !.nrecv = k, !.pc = "closed"]
    /\ UNCHANGED notSession

\* interactive_mode, the command 'set <key> <value>' (lines 413-444)
InteractiveSet(key, value, k) ==
    /\ ses.script = "interactive_mode" /\ ses.pc = "prompt"
    /\ ses.cmds < MaxCommands
    /\ k \in Cuts(ses.plan) /\ k >= ses.nrecv
    /\ ses' = [ses EXCEPT
            !.sent = ses.sent \o <<build_pv(key, value, ses.session_cbytes),
                                   build_pv(key, value, <<114, 0, 101, 0>>)>>,
            !.sentAt = ses.sentAt \o <<ses.nrecv, ses.nrecv>>,
            !.nrecv = k, !.cmds = ses.cmds + 1]
    /\ UNCHANGED notSession

\* interactive_mode, the command 'get' (lines 402-411)
InteractiveGet(k) ==
    /\ ses.script = "interactive_mode" /\ ses.pc = "prompt"
    /\ ses.cmds < MaxCommands
    /\ k \in Cuts(ses.plan) /\ k > ses.nrecv
    /\ ses' = [ses EXCEPT !.nrecv = k, !.cmds = ses.cmds + 1]
    /\ UNCHANGED notSession

\* interactive_mode, the command 'quit' or the end of input
InteractiveQuit ==
    /\ ses.script = "interactive_mode" /\ ses.pc = "prompt"
    /\ ses' = [ses EXCEPT !.pc = "closed"]
    /\ UNCHANGED notSession

NextSession ==
    \/ SendHello
    \/ SendSubscribe
    \/ ExtractSessionCBytes
    \/ ReplayInspect
    \/ ReplayExtract
    \/ SendSessionPV
    \/ ReplaySendSession
    \/ SendUcPV
    \/ QuickSendParam
    \/ InteractiveQuit
    \/ \E k \in 0..Len(ses.peer) : ReplayHelloResponse(k)
    \/ \E k \in 0..Len(ses.peer) : Collect(k)
    \/ \E k \in 0..Len(ses.peer) : Drain(k)
    \/ \E k \in 0..Len(ses.peer) : ReadResponse(k)
    \/ \E k \in 0..Len(ses.peer) : InteractiveGet(k)
    \/ \E k \in 0..Len(ses.peer), key \in Keys, value \in Values :
          InteractiveSet(key, value, k)

StartSession == InitSession /\ IdleBut("session")

SpecSession == StartSession /\ [][NextSession]_vars

\* a PV or PS frame
IsParameterFrame(f) == Slice(f, 6, 8) \in {TYPE_PV, TYPE_PS}

\* the acceptance reply had been received in full when n bytes had arrived
AcceptedBy(n) ==
    ses.plan.kind = "accept" /\ n >= Len(ses.plan.lead) + Len(ses.plan.reply)

\* the rejection reply had been received in full when n bytes had arrived
RejectedBy(n) ==
    ses.plan.kind = "reject" /\ n >= Len(ses.plan.lead) + Len(ses.plan.reply)

\* C1: once the acceptance reply carrying token T has been received, every
\* parameter frame written by test_parameter, interactive_mode and
\* test_mixer_control.main carries T in its first 4 payload bytes.
TokenAdoption ==
    ses.script \in {"test_parameter", "interactive_mode", "test_mixer_control"} =>
        \A i \in 1..Len(ses.sent) :
            (IsParameterFrame(ses.sent[i]) /\ AcceptedBy(ses.sentAt[i])) =>
                Slice(ses.sent[i], 8, 12) = ses.plan.token

\* C2: no parameter frame is written on a connection on which no acceptance
\* reply has been received before.
WritesOnlyWhenSubscribed ==
    \A i \in 1..Len(ses.sent) :
        IsParameterFrame(ses.sent[i]) => AcceptedBy(ses.sentAt[i])

\* C3: in replay_uc_packet.main no parameter frame is written after the
\* rejection reply has been received.
RejectionIsTerminal ==
    ses.script = "replay_uc_packet" =>
        \A i \in 1..Len(ses.sent) :
            IsParameterFrame(ses.sent[i]) => ~RejectedBy(ses.sentAt[i])

\* C20: when the search finds no acceptance reply in the collected state,
\* the first parameter frame written by test_parameter, interactive_mode and
\* test_mixer_control.main carries the token of the script's Subscribe frame.
TokenFallback ==
    ses.script \in {"test_parameter", "interactive_mode", "test_mixer_control"} =>
        \A i \in 1..Len(ses.sent) :
            (/\ IsParameterFrame(ses.sent[i])
             /\ \A j \in 1..(i - 1) : ~IsParameterFrame(ses.sent[j])
             /\ extract_session_cbytes(ses.state, <<>>, 50) = <<>>)
            => \E j \in 1..(i - 1) :
                   /\ Slice(ses.sent[j], 6, 8) = TYPE_JSON
                   /\ Slice(ses.sent[i], 8, 12) = Slice(ses.sent[j], 8, 12)

(***************************************************************************)
(* test_ucdaemon_control.py: UCDaemonClient, its main thread and its       *)
(* receive thread                                                          *)
(***************************************************************************)
\* json.dumps of the Subscribe request, 268 bytes
UCDAEMON_SUBSCRIBE_JSON ==
    <<123, 34, 105, 100, 34, 58, 32, 34, 83, 117, 98, 115, 99, 114, 105, 98, 101, 34, 44,
      32, 34, 99, 108, 105, 101, 110, 116, 78, 97, 109, 101, 34, 58, 32, 34, 70, 97, 100,
      101, 114, 66, 114, 105, 100, 103, 101, 34, 44, 32, 34, 99, 108, 105, 101, 110, 116,
      73, 110, 116, 101, 114, 110, 97, 108, 78, 97, 109, 101, 34, 58, 32, 34, 102, 97, 100,
      101, 114, 98, 114, 105, 100, 103, 101, 34, 44, 32, 34, 99, 108, 105, 101, 110, 116,
      84, 121, 112, 101, 34, 58, 32, 34, 80, 67, 34, 44, 32, 34, 99, 108, 105, 101, 110,
      116, 68, 101, 115, 99, 114, 105, 112, 116, 105, 111, 110, 34, 58, 32, 34, 70, 97,
      100, 101, 114, 66, 114, 105, 100, 103, 101, 32, 77, 73, 68, 73, 32, 67, 111, 110,
      116, 114, 111, 108, 108, 101, 114, 34, 44, 32, 34, 99, 108, 105, 101, 110, 116, 73,
      100, 101, 110, 116, 105, 102, 105, 101, 114, 34, 58, 32, 34, 70, 97, 100, 101, 114,
      66, 114, 105, 100, 103, 101, 45, 84, 101, 115, 116, 34, 44, 32, 34, 99, 108, 105,
      101, 110, 116, 79, 112, 116, 105, 111, 110, 115, 34, 58, 32, 34, 112, 101, 114, 109,
      32, 117, 115, 101, 114, 115, 32, 108, 101, 118, 108, 32, 114, 101, 100, 117, 32, 114,
      116, 97, 110, 34, 44, 32, 34, 99, 108, 105, 101, 110, 116, 69, 110, 99, 111, 100,
      105, 110, 103, 34, 58, 32, 50, 51, 49, 48, 54, 125>>

DIR_CLIENT_TO_DAEMON == <<117, 0, 104, 0>>
DIR_DAEMON_TO_CLIENT == <<104, 0, 117, 0>>

\* test_ucdaemon_control.build_hello_packet
build_hello_packet == build_ucnet_packet(TYPE_HELLO, <<0, 0, 101, 0, 21, 250>>)

\* test_ucdaemon_control.build_keepalive_packet
build_keepalive_packet == build_ucnet_packet(TYPE_KA, <<106, 0, 101, 0>>)

\* UCDaemonClient._build_subscribe_packet
ucd_build_subscribe_packet ==
    LET payload == <<106, 0, 101, 0>> \o pack_I(Len(UCDAEMON_SUBSCRIBE_JSON))
                       \o UCDAEMON_SUBSCRIBE_JSON
    IN  MAGIC \o pack_H(Len(TYPE_JSON) + Len(payload)) \o TYPE_JSON \o payload

\* build_parameter_packet with the padding of lines 84-88, which aligns the
\* value on 4 bytes
build_parameter_packet_aligned(param_path, value) ==
    LET direction      == DIR_CLIENT_TO_DAEMON
        path_bytes     == param_path \o <<0>>
        current_len    == Len(direction) + Len(path_bytes)
        padding_needed == (4 - (current_len % 4)) % 4
        padding        == [i \in 1..(IF padding_needed = 0 THEN 4 ELSE padding_needed) |-> 0]
    IN  build_ucnet_packet(TYPE_PV, direction \o path_bytes \o padding \o pack_f(value))

\* test_ucdaemon_control.build_parameter_packet: the padding computed in lines
\* 84-88 is overwritten by the two NUL bytes of line 95
build_parameter_packet(param_path, value) ==
    LET direction   == DIR_CLIENT_TO_DAEMON
        path_bytes  == param_path \o <<0>>
        padding     == <<0, 0>>
        value_bytes == pack_f(value)
    IN  build_ucnet_packet(TYPE_PV, direction \o path_bytes \o padding \o value_bytes)

\* the CBytes of the last acceptance reply passed to _handle_packet, or None
RECURSIVE reply_token_handled(_)
reply_token_handled(handled) ==
    IF handled = <<>> THEN None
    ELSE LET pkt == handled[Len(handled)]
         IN  IF pkt.type = TYPE_JSON /\ Contains(pkt.payload, SUBSCRIPTION_REPLY)
             THEN Slice(pkt.payload, 0, 4)
             ELSE reply_token_handled(SubSeq(handled, 1, Len(handled) - 1))

UcdTokens == PeerTokens \cup {DIR_CLIENT_TO_DAEMON}
UcdPlans ==
    {[kind |-> "none", token |-> <<>>, lead |-> l, reply |-> <<>>, trail |-> <<>>] :
        l \in PeerLeads}
    \cup
    {[kind |-> "accept", token |-> c, lead |-> l,
      reply |-> peer_json_frame(c, REPLY_JSON), trail |-> t] :
        c \in UcdTokens, l \in PeerLeads, t \in PeerTrails}
    \cup
    {[kind |-> "reject", token |-> DIR_DAEMON_TO_CLIENT, lead |-> <<>>,
      reply |-> peer_json_frame(DIR_DAEMON_TO_CLIENT, LOST_JSON), trail |-> <<>>]}

MaxCalls == 2
\* calls of connect() on one client object
MaxConnects == 2
UcdPaths  == {KEY_MAIN_OUT_VOLUME}
UcdValues == {100, 500}

\* UCDaemonClient.__init__ (lines 127-132)
InitUcd ==
    \E p \in UcdPlans :
        ucd = [main |-> "new", sock |-> "none", running |-> FALSE, recv_thread |-> "none",
               call |-> None, calls |-> 0, buffer |-> <<>>, handled |-> <<>>,
               sent |-> <<>>, plan |-> p, peer |-> PeerStream(p), nrecv |-> 0,
               conns |-> 0, disconnected |-> FALSE, old |-> <<>>, refused |-> {}]

\* a frame written on the current connection; `seen` is the token that
\* _handle_packet had been shown when the call began
Sent(frame, seen) == [frame |-> frame, seen |-> seen, conn |-> ucd.conns]

\* no call of the main thread is under way
MainIdle == ucd.main \in {"new", "ready", "closed"} /\ ucd.call = None

\* connect(), lines 136-145: a new socket is connected and a new receive
\* thread started, whatever was done with the object before.  The peer
\* plays its plan on every connection.  A receive thread of an earlier
\* connection that has not returned yet finds self.running True again and
\* goes on, with its own buffer, on the new socket.
UcdConnect ==
    /\ ucd.main \in {"new", "closed"} /\ ucd.call = None
    /\ ucd.conns < MaxConnects
    /\ ucd' = [ucd EXCEPT !.sock = "open", !.running = TRUE, !.recv_thread = "alive",
                          !.main = "hello", !.conns = ucd.conns + 1,
                          !.buffer = <<>>, !.nrecv = 0,
                          !.old = IF ucd.recv_thread = "alive"
                                  THEN Append(ucd.old, ucd.buffer) ELSE ucd.old]
    /\ UNCHANGED notUcd

\* _send_hello, lines 166-168
UcdSendHello ==
    /\ ucd.main = "hello"
    /\ ucd' = [ucd EXCEPT !.sent = Append(ucd.sent, Sent(build_hello_packet, None)),
                          !.main = "subscribe"]
    /\ UNCHANGED notUcd

\* _send_hello, lines 173-175
UcdSendSubscribe ==
    /\ ucd.main = "subscribe"
    /\ ucd' = [ucd EXCEPT !.sent = Append(ucd.sent, Sent(ucd_build_subscribe_packet, None)),
                          !.main = "keepalive"]
    /\ UNCHANGED notUcd

\* _send_hello, lines 180-182, and the return of connect()
UcdSendFirstKeepAlive ==
    /\ ucd.main = "keepalive"
    /\ ucd' = [ucd EXCEPT !.sent = Append(ucd.sent, Sent(build_keepalive_packet, None)),
                          !.main = "ready"]
    /\ UNCHANGED notUcd

\* what the peer has sent so far: the reply follows the Subscribe request
PeerSent ==
    IF ucd.main \in {"keepalive", "ready", "closed"}
    THEN Len(ucd.peer) ELSE Len(ucd.plan.lead)

\* one pass of _receive_loop with a read that ends at k (lines 214-241)
UcdReceive(k) ==
    /\ ucd.recv_thread = "alive" /\ ucd.running /\ ucd.sock = "open"
    /\ k \in Cuts(ucd.plan) /\ k > ucd.nrecv /\ k <= PeerSent
    /\ LET r == receive_loop_read(ucd.buffer, ucd.handled, Slice(ucd.peer, ucd.nrecv, k))
       IN  ucd' = [ucd EXCEPT !.buffer = r.buffer, !.handled = r.handled, !.nrecv = k]
    /\ UNCHANGED notUcd

\* _receive_loop ends: running is False at line 214, or recv raises on the
\* closed socket (lines 244-247)
UcdReceiveExit ==
    /\ ucd.recv_thread = "alive"
    /\ ~ucd.running \/ ucd.sock = "none"
    /\ ucd' = [ucd EXCEPT !.recv_thread = "exited"]
    /\ UNCHANGED notUcd

\* ucd.old without its j-th loop
OldWithout(j) == SubSeq(ucd.old, 1, j - 1) \o SubSeq(ucd.old, j + 1, Len(ucd.old))

\* one pass of the loop of an earlier connection's receive thread
UcdOldReceive(j, k) ==
    /\ j \in 1..Len(ucd.old) /\ ucd.running /\ ucd.sock = "open"
    /\ k \in Cuts(ucd.plan) /\ k > ucd.nrecv /\ k <= PeerSent
    /\ LET r == receive_loop_read(ucd.old[j], ucd.handled, Slice(ucd.peer, ucd.nrecv, k))
       IN  ucd' = [ucd EXCEPT !.old[j] = r.buffer, !.handled = r.handled, !.nrecv = k]
    /\ UNCHANGED notUcd

\* the receive thread of an earlier connection ends
UcdOldExit(j) ==
    /\ j \in 1..Len(ucd.old)
    /\ ~ucd.running \/ ucd.sock = "none"
    /\ ucd' = [ucd EXCEPT !.old = OldWithout(j)]
    /\ UNCHANGED notUcd

\* set_parameter up to line 281: the socket test and the packet
UcdSetParameterBegin(path, value) ==
    /\ MainIdle /\ ucd.calls < MaxCalls
    /\ IF ucd.sock = "none"
       THEN ucd' = [ucd EXCEPT !.calls = ucd.calls + 1,
                       !.refused = ucd.refused \cup {ucd.main}]
       ELSE ucd' = [ucd EXCEPT !.calls = ucd.calls + 1,
                       !.call = Sent(build_parameter_packet(path, value),
                                     reply_token_handled(ucd.handled))]
    /\ UNCHANGED notUcd

\* set_parameter, line 285: the packet is sent
UcdSetParameterSend ==
    /\ ucd.call # None
    /\ ucd' = [ucd EXCEPT !.sent = Append(ucd.sent, ucd.call), !.call = None]
    /\ UNCHANGED notUcd

\* send_keepalive without the socket test of line 298
UcdSendKeepaliveUnguarded ==
    /\ MainIdle /\ ucd.calls < MaxCalls
    /\ ucd' = [ucd EXCEPT !.calls = ucd.calls + 1,
                          !.sent = Append(ucd.sent, Sent(build_keepalive_packet, None))]
    /\ UNCHANGED notUcd

\* send_keepalive (lines 296-300)
UcdSendKeepalive ==
    /\ MainIdle /\ ucd.calls < MaxCalls
    /\ IF ucd.sock = "none"
       THEN ucd' = [ucd EXCEPT !.calls = ucd.calls + 1,
                       !.refused = ucd.refused \cup {ucd.main}]
       ELSE ucd' = [ucd EXCEPT !.calls = ucd.calls + 1,
                       !.sent = Append(ucd.sent, Sent(build_keepalive_packet, None))]
    /\ UNCHANGED notUcd

\* disconnect (lines 155-161)
UcdDisconnect ==
    /\ ucd.main = "ready" /\ ucd.call = None
    /\ ucd' = [ucd EXCEPT !.running = FALSE, !.sock = "none", !.main = "closed",
                          !.disconnected = TRUE]
    /\ UNCHANGED notUcd

NextUcd ==
    \/ UcdConnect
    \/ UcdSendHello
    \/ UcdSendSubscribe
    \/ UcdSendFirstKeepAlive
    \/ UcdReceiveExit
    \/ UcdSetParameterSend
    \/ UcdSendKeepalive
    \/ UcdDisconnect
    \/ \E k \in 1..Len(ucd.peer) : UcdReceive(k)
    \/ \E j \in 1..MaxConnects, k \in 1..Len(ucd.peer) : UcdOldReceive(j, k)
    \/ \E j \in 1..MaxConnects : UcdOldExit(j)
    \/ \E path \in UcdPaths, value \in UcdValues : UcdSetParameterBegin(path, value)

StartUcd == InitUcd /\ IdleBut("ucd")

SpecUcd == StartUcd /\ [][NextUcd]_vars

\* C4: a set_parameter call that starts after the receive thread has handled
\* the subscribe reply writes a frame whose first 4 payload bytes are the
\* token of that reply.
ConsistentPhaseToken ==
    \A i \in 1..Len(ucd.sent) :
        (IsParameterFrame(ucd.sent[i].frame) /\ ucd.sent[i].seen # None) =>
            Slice(ucd.sent[i].frame, 8, 12) = ucd.sent[i].seen

\* a step that is a call of set_parameter or send_keepalive on a client
\* without a socket, that is before connect() or after disconnect()
CallOutsideSession == ucd.sock = "none" /\ ucd'.calls = ucd.calls + 1

\* C23: set_parameter and send_keepalive called before connect() or after
\* disconnect() write nothing and leave sock, running and recv_thread as
\* they were.
RefusedWithoutEffect ==
    [][CallOutsideSession =>
          /\ ucd'.sent = ucd.sent /\ ucd'.call = None
          /\ ucd'.sock = ucd.sock
          /\ ucd'.running = ucd.running
          /\ ucd'.recv_thread = ucd.recv_thread]_vars

\* C23 witness: one call found no socket before connect() and another after
\* disconnect(), on a client that wrote its handshake in between
RefusedWitness ==
    /\ ucd.refused = {"new", "closed"}
    /\ ucd.sent # <<>>
    /\ ucd.sock = "none" /\ ~ucd.running

\* C26: once the client has been disconnected, no step writes a frame, and
\* no receive loop runs again: no thread is started and self.running, the
\* loop condition, stays False.
ClosedIsTerminal ==
    [][ucd.disconnected =>
          /\ ucd'.sent = ucd.sent
          /\ ucd'.conns = ucd.conns
          /\ ~ucd'.running]_vars

(***************************************************************************)
(* listen_params.py: parse_packets and the listen loop of main             *)
(***************************************************************************)
FloatValues == {0, 100, 250, 500, 1000, -10000}

\* struct.unpack('<f', b)[0] for the packed values above, in thousandths
unpack_f(b) == CHOOSE v \in FloatValues : pack_f(v) = b

FloatVal(v) == [kind |-> "float", v |-> v]
TextVal(b)  == [kind |-> "str", v |-> b]

\* what one pass of the loop of listen_params.parse_packets yields at idx
\* (lines 70-91): a sequence of zero or one (type, key, value)
listen_yield(ptype, payload) ==
    LET null_idx == Find(payload, <<0>>, 4)
    IN  IF ptype = TYPE_PV
        THEN IF null_idx > 4 /\ Len(payload) >= null_idx + 7
             THEN <<[type |-> "PV", key |-> decode_ascii(Slice(payload, 4, null_idx)),
                     value |-> FloatVal(unpack_f(LastN(payload, 4)))]>>
             ELSE <<>>
        ELSE IF ptype = TYPE_PS
        THEN IF null_idx > 4
             THEN LET val_start == null_idx + 3
                      val_end   == Find(payload, <<0>>, val_start)
                  IN  IF val_end > val_start
                      THEN <<[type |-> "PS",
                              key |-> decode_ascii(Slice(payload, 4, null_idx)),
                              value |-> TextVal(Slice(payload, val_start, val_end))]>>
                      ELSE <<>>
             ELSE <<>>
        ELSE <<>>

\* listen_params.parse_packets from `pos` on: all it yields, in order
RECURSIVE listen_parse_from(_, _)
listen_parse_from(data, pos) ==
    IF ~(pos < Len(data) - 8) THEN <<>>
    ELSE LET idx == Find(data, MAGIC, pos)
         IN  IF idx = -1 THEN <<>>
             ELSE IF idx + 8 > Len(data) THEN <<>>
             ELSE LET size  == unpack_H(Slice(data, idx + 4, idx + 6))
                      ptype == Slice(data, idx + 6, idx + 8)
                  IN  IF idx + 6 + size > Len(data)
                      THEN listen_parse_from(data, idx + 1)
                      ELSE listen_yield(ptype, Slice(data, idx + 8, idx + 6 + size))
                               \o listen_parse_from(data, idx + 6 + size)

\* listen_params.parse_packets
listen_parse_packets(data) == listen_parse_from(data, 0)

PERMISSIONS == <<112, 101, 114, 109, 105, 115, 115, 105, 111, 110, 115, 47>>

\* seen_values.get(key) on the list of (key, value) pairs kept in order
RECURSIVE seen_get(_, _)
seen_get(seen, key) ==
    IF seen = <<>> THEN None
    ELSE IF seen[Len(seen)][1] = key THEN seen[Len(seen)][2]
    ELSE seen_get(SubSeq(seen, 1, Len(seen) - 1), key)

\* seen_values[key] = value
seen_put(seen, key, value) ==
    IF \E i \in 1..Len(seen) : seen[i][1] = key
    THEN [i \in 1..Len(seen) |-> IF seen[i][1] = key THEN <<key, value>> ELSE seen[i]]
    ELSE Append(seen, <<key, value>>)

Abs(x) == IF x < 0 THEN -x ELSE x

\* the body of the for loop of lines 147-160 over the yielded tuples; the
\* difference of a float and a str at line 154 raises TypeError, which
\* nothing in main catches
RECURSIVE listen_report(_, _, _)
listen_report(tuples, seen, printed) ==
    IF tuples = <<>> THEN [seen |-> seen, printed |-> printed, raised |-> FALSE]
    ELSE LET t        == Head(tuples)
             last_val == seen_get(seen, t.key)
         IN  IF Slice(t.key, 0, 12) = PERMISSIONS
             THEN listen_report(Tail(tuples), seen, printed)
             ELSE IF last_val # None /\ t.value.kind = "float" /\ last_val.kind = "str"
             THEN [seen |-> seen, printed |-> printed, raised |-> TRUE]
             ELSE IF last_val = None
                     \/ (t.value.kind = "float" /\ Abs(t.value.v - last_val.v) > 1)
             THEN listen_report(Tail(tuples), seen_put(seen, t.key, t.value),
                                Append(printed, t))
             ELSE listen_report(Tail(tuples), seen, printed)

\* the PV and PS frames the mixer sends while the script listens
ListenFrames ==
    {[tag |-> TYPE_PV, key |-> <<97, 47, 98>>, value |-> FloatVal(500),
      payload |-> <<114, 0, 101, 0, 97, 47, 98, 0, 0, 0>> \o pack_f(500)],
     [tag |-> TYPE_PV, key |-> KEY_MAIN_CH1_VOLUME, value |-> FloatVal(250),
      payload |-> <<114, 0, 101, 0>> \o KEY_MAIN_CH1_VOLUME \o <<0, 0, 0>> \o pack_f(250)],
     [tag |-> TYPE_PS, key |-> <<97, 47, 98>>, value |-> TextVal(<<120, 121>>),
      payload |-> <<114, 0, 101, 0, 97, 47, 98, 0, 0, 0, 120, 121, 0>>],
     [tag |-> TYPE_PS, key |-> KEY_MAIN_OUT_VOLUME, value |-> TextVal(<<77>>),
      payload |-> <<114, 0, 101, 0>> \o KEY_MAIN_OUT_VOLUME \o <<0, 0, 0, 77, 0>>]}

\* the frames that may follow the first one: a new value for a key that was
\* sent before, as a float or as a string
LaterFrames ==
    ListenFrames \cup
    {[tag |-> TYPE_PV, key |-> <<97, 47, 98>>, value |-> FloatVal(1000),
      payload |-> <<114, 0, 101, 0, 97, 47, 98, 0, 0, 0>> \o pack_f(1000)],
     [tag |-> TYPE_PS, key |-> <<97, 47, 98>>, value |-> TextVal(<<122>>),
      payload |-> <<114, 0, 101, 0, 97, 47, 98, 0, 0, 0, 122, 0>>]}

\* the listen loop starts with an empty seen_values (lines 136-138).  One
\* frame arrives in one chunk (cut = its length) or split at `cut`; two
\* frames arrive each in its own chunk or both in one.
InitListen ==
    \/ \E f \in ListenFrames :
           \E c \in 1..Len(build_packet(f.tag, f.payload)) :
               lis = [phase |-> "listening", frame |-> f, later |-> <<>>,
                      stream |-> build_packet(f.tag, f.payload), cut |-> c, nrecv |-> 0,
                      seen_values |-> <<>>, printed |-> <<>>]
    \/ \E f \in ListenFrames, g \in LaterFrames :
           \E c \in {Len(build_packet(f.tag, f.payload)),
                     Len(build_packet(f.tag, f.payload) \o build_packet(g.tag, g.payload))} :
               lis = [phase |-> "listening", frame |-> f, later |-> <<g>>,
                      stream |-> build_packet(f.tag, f.payload)
                                     \o build_packet(g.tag, g.payload),
                      cut |-> c, nrecv |-> 0,
                      seen_values |-> <<>>, printed |-> <<>>]

\* one pass of the listen loop with a recv that returns data (lines 143-160)
ListenRecv ==
    /\ lis.phase = "listening"
    /\ lis.nrecv < Len(lis.stream)
    /\ LET upto == IF lis.nrecv < lis.cut THEN lis.cut ELSE Len(lis.stream)
           data == Slice(lis.stream, lis.nrecv, upto)
           r    == listen_report(listen_parse_packets(data),
                                 lis.seen_values, lis.printed)
       IN  lis' = [lis EXCEPT !.nrecv = upto, !.seen_values = r.seen,
                              !.printed = r.printed,
                              !.phase = IF r.raised THEN "raised" ELSE lis.phase]
    /\ UNCHANGED notListen

\* the duration is over: the socket is closed and the summary printed
ListenStop ==
    /\ lis.phase = "listening"
    /\ lis.nrecv = Len(lis.stream)
    /\ lis' = [lis EXCEPT !.phase = "stopped"]
    /\ UNCHANGED notListen

NextListen == ListenRecv \/ ListenStop

StartListen == InitListen /\ IdleBut("listen")

SpecListen == StartListen /\ [][NextListen]_vars

\* C10: a valid PV or PS frame is decoded and reported exactly once, whether
\* it arrives in one chunk or split across two consecutive chunks.
SplitFrameReportedOnce ==
    (lis.later = <<>> /\ lis.nrecv = Len(lis.stream)) =>
        lis.printed = <<[type |-> IF lis.frame.tag = TYPE_PV THEN "PV" ELSE "PS",
                         key |-> lis.frame.key, value |-> lis.frame.value]>>

\* the frames sent, in order, and the value of the last one sent for `key`
ListenSent == <<lis.frame>> \o lis.later
LastSentFor(key) ==
    ListenSent[SetMax({i \in 1..Len(ListenSent) : ListenSent[i].key = key})].value

\* C27: after the frames have been received, each whole in a chunk,
\* seen_values[path] is the value of the last frame decoded for that path,
\* for float and string values alike.
LastValueTracked ==
    (lis.later # <<>> /\ lis.nrecv = Len(lis.stream)) =>
        \A i \in 1..Len(ListenSent) :
            seen_get(lis.seen_values, ListenSent[i].key) = LastSentFor(ListenSent[i].key)

(***************************************************************************)
(* monitor_and_send.receiver_thread over arbitrary streams and chunkings   *)
(***************************************************************************)
\* the offsets in `buffer` at which the inner loop of receiver_thread (lines
\* 108-141) finds the packets it prints, in the order it finds them
RECURSIVE receiver_offsets(_, _, _)
receiver_offsets(buffer, offset, offs) ==
    IF ~(offset < Len(buffer)) THEN offs
    ELSE LET s == receiver_step(buffer, offset, <<>>)
         IN  IF s.brk THEN offs
             ELSE receiver_offsets(buffer, s.off,
                                   IF s.handled # <<>> THEN Append(offs, offset) ELSE offs)

MaxFifoPieces == 3
\* what the peer's stream is made of: frames, a header with size 0, a byte
\* of garbage, a part of the magic and a header whose frame never completes
FifoPieces ==
    {build_packet(TYPE_KA, <<>>), build_packet(TYPE_KA, KA_PAYLOAD),
     build_packet(TYPE_PV, PV_PAYLOAD), MAGIC \o <<0, 0>>, <<9>>, <<85, 67>>,
     MAGIC \o <<40, 0, 75, 65>>}

RECURSIVE FifoStreams(_)
FifoStreams(n) ==
    IF n = 0 THEN {<<>>}
    ELSE LET shorter == FifoStreams(n - 1)
         IN  shorter \cup {s \o p : s \in shorter, p \in FifoPieces}

\* receiver_thread starts with an empty buffer (line 98)
InitFifo ==
    /\ scen = ScenIdle
    /\ \E st \in FifoStreams(MaxFifoPieces) :
          rx = [who |-> "fifo", stream |-> st, pos |-> 0, buffer |-> <<>>,
                handled |-> <<>>, starts |-> <<>>, reads |-> 0]

\* one pass of the outer loop of receiver_thread on a read that returns the
\* bytes of the stream up to `upto`
FifoRead(upto) ==
    LET data == Slice(rx.stream, rx.pos, upto)
        base == rx.pos - Len(rx.buffer)
        r    == receiver_thread_read(rx.buffer, rx.handled, data)
        offs == receiver_offsets(rx.buffer \o data, 0, <<>>)
    IN  rx' = [rx EXCEPT !.pos = upto, !.buffer = r.buffer, !.handled = r.handled,
                         !.starts = rx.starts \o [i \in 1..Len(offs) |-> base + offs[i]],
                         !.reads = IF rx.reads < 3 THEN rx.reads + 1 ELSE 3]

\* sock.recv(4096) returns the next k bytes
FifoRecv(k) ==
    /\ rx.who = "fifo"
    /\ rx.pos + k <= Len(rx.stream)
    /\ FifoRead(rx.pos + k)
    /\ UNCHANGED <<scen>>
    /\ UNCHANGED notStream

\* sock.recv(4096) returns all that is left of the stream
FifoRecvRest ==
    /\ rx.who = "fifo"
    /\ rx.pos < Len(rx.stream)
    /\ FifoRead(Len(rx.stream))
    /\ UNCHANGED <<scen>>
    /\ UNCHANGED notStream

NextFifo ==
    \/ \E k \in 1..MaxChunk : FifoRecv(k)
    \/ FifoRecvRest

StartFifo == InitFifo /\ IdleBut("stream")

SpecFifo == StartFifo /\ [][NextFifo]_vars

\* C11: however the stream is split into reads, once all of it has been
\* delivered receiver_thread has handled the frames that one read of the
\* whole stream handles, and the handled frames start at increasing offsets
\* of the stream.
ChunkingIndependence ==
    rx.who = "fifo" =>
        /\ \A i \in 1..(Len(rx.starts) - 1) : rx.starts[i] < rx.starts[i + 1]
        /\ Len(rx.starts) = Len(rx.handled)
        /\ rx.pos = Len(rx.stream) =>
              /\ rx.handled = receiver_thread_read(<<>>, <<>>, rx.stream).handled
              /\ rx.starts = receiver_offsets(rx.stream, 0, <<>>)

\* a stream of garbage and two frames has been delivered in several reads
\* that cut through a frame, and both frames were handled
ChunkingIndependenceWitness ==
    /\ rx.who = "fifo"
    /\ rx.pos = Len(rx.stream)
    /\ rx.reads >= 3
    /\ Len(rx.handled) = 2
    /\ rx.starts[1] > 0
    /\ rx.handled[2].payload = PV_PAYLOAD

(***************************************************************************)
(* discover_parameters.py: frames and parameters through the decoders      *)
(***************************************************************************)
MaxFrames == 2
\* payloads of 0..12 bytes: the empty payload of a keepalive, the Hello
\* payload, a payload that holds the magic
RoundTripPayloads == {<<>>, <<1>>, KA_PAYLOAD, HELLO_PAYLOAD, MAGIC \o <<2, 0>>, PV_PAYLOAD}
RoundTripFrames == {<<t, p>> : t \in TypeTags, p \in RoundTripPayloads}

RECURSIVE FrameLists(_)
FrameLists(n) ==
    IF n = 0 THEN {<<>>}
    ELSE LET shorter == FrameLists(n - 1)
         IN  shorter \cup {Append(l, f) : l \in shorter, f \in RoundTripFrames}

\* the frames of a list, built and joined
RECURSIVE JoinFrames(_)
JoinFrames(l) ==
    IF l = <<>> THEN <<>>
    ELSE build_packet(Head(l)[1], Head(l)[2]) \o JoinFrames(Tail(l))

RoundTripArgs == {[op |-> "round_trip", arg |-> l, out |-> <<>>, done |-> FALSE] :
                      l \in FrameLists(MaxFrames) \ {<<>>}}

\* parse_packets(build_packet(t1, p1) + build_packet(t2, p2) + ...)
RoundTrip ==
    /\ prm.op = "round_trip" /\ ~prm.done
    /\ prm' = [prm EXCEPT !.out = parse_packets(JoinFrames(prm.arg)), !.done = TRUE]
    /\ UNCHANGED notParams

\* C12: the batch decoder returns every frame of a concatenation of built
\* frames, in order, each with its type tag and its payload.
FrameRoundTrip ==
    (prm.op = "round_trip" /\ prm.done) =>
        /\ Len(prm.out) = Len(prm.arg)
        /\ \A i \in 1..Len(prm.arg) :
              prm.out[i].type = prm.arg[i][1] /\ prm.out[i].payload = prm.arg[i][2]

\* a float that fits 4 bytes is [s, e, m]: sign, biased exponent and mantissa
\* of its IEEE 754 single-precision form
\* struct.pack('<f', x)
pack_f32(x) ==
    <<x.m % 256, (x.m \div 256) % 256, (x.e % 2) * 128 + x.m \div 65536,
      x.s * 128 + x.e \div 2>>

\* struct.unpack('<f', b)[0]: a signalling NaN comes back quiet
unpack_f32(b) ==
    LET s == b[4] \div 128
        e == (b[4] % 128) * 2 + b[3] \div 128
        m == (b[3] % 128) * 65536 + b[2] * 256 + b[1]
    IN  [s |-> s, e |-> e,
         m |-> IF e = 255 /\ m # 0 /\ m < 4194304 THEN m + 4194304 ELSE m]

\* build_pv with the value given as such a float
build_pv_f32(key, x, cbytes) ==
    build_packet(TYPE_PV, cbytes \o key \o <<0>> \o <<0, 0>> \o pack_f32(x))

\* extract_pv_params with the key searched from offset 0 instead of 4
RECURSIVE extract_pv_loop_key_start_0(_, _)
extract_pv_loop_key_start_0(packets, params) ==
    IF packets = <<>> THEN params
    ELSE LET payload  == Head(packets).payload
             null_idx == Find(payload, <<0>>, 0)
         IN  IF Head(packets).type # TYPE_PV \/ Len(payload) < 10 \/ null_idx = -1
             THEN extract_pv_loop_key_start_0(Tail(packets), params)
             ELSE extract_pv_loop_key_start_0(Tail(packets),
                      IF Len(payload) >= null_idx + 7
                      THEN seen_put(params, decode_ascii(Slice(payload, 0, null_idx)),
                                    unpack_f32(LastN(payload, 4)))
                      ELSE params)

extract_pv_params_key_start_0(packets) ==
    [params |-> extract_pv_loop_key_start_0(packets, <<>>), raised |-> FALSE]

\* extract_pv_params without the length tests of lines 109 and 122
RECURSIVE extract_pv_loop_unguarded(_, _)
extract_pv_loop_unguarded(packets, params) ==
    IF packets = <<>> THEN params
    ELSE LET payload  == Head(packets).payload
             null_idx == Find(payload, <<0>>, 4)
             value    == LastN(payload, 4)
         IN  IF Head(packets).type # TYPE_PV \/ null_idx = -1
             THEN extract_pv_loop_unguarded(Tail(packets), params)
             ELSE extract_pv_loop_unguarded(Tail(packets),
                      IF Len(value) = 4
                      THEN seen_put(params, decode_ascii(Slice(payload, 4, null_idx)),
                                    unpack_f32(value))
                      ELSE params)

extract_pv_params_unguarded(packets) ==
    [params |-> extract_pv_loop_unguarded(packets, <<>>), raised |-> FALSE]

\* the for loop of extract_pv_params (lines 107-128): the dict as the list of
\* its (key, value) pairs
RECURSIVE extract_pv_loop(_, _)
extract_pv_loop(packets, params) ==
    IF packets = <<>> THEN params
    ELSE LET payload  == Head(packets).payload
             null_idx == Find(payload, <<0>>, 4)
             value    == LastN(payload, 4)
         IN  IF Head(packets).type # TYPE_PV \/ Len(payload) < 10 \/ null_idx = -1
             THEN extract_pv_loop(Tail(packets), params)
             ELSE extract_pv_loop(Tail(packets),
                      IF Len(payload) >= null_idx + 7 /\ Len(value) = 4
                      THEN seen_put(params, decode_ascii(Slice(payload, 4, null_idx)),
                                    unpack_f32(value))
                      ELSE params)

\* discover_parameters.extract_pv_params: what it returns, and whether an
\* exception left it
extract_pv_params(packets) ==
    [params |-> extract_pv_loop(packets, <<>>), raised |-> FALSE]

\* the for loop of extract_ps_params (lines 136-161)
RECURSIVE extract_ps_loop(_, _)
extract_ps_loop(packets, params) ==
    IF packets = <<>> THEN params
    ELSE LET payload   == Head(packets).payload
             null_idx  == Find(payload, <<0>>, 4)
             val_start == null_idx + 3
             found     == Find(payload, <<0>>, val_start)
             val_end   == IF found = -1 THEN Len(payload) ELSE found
         IN  IF Head(packets).type # TYPE_PS \/ Len(payload) < 10 \/ null_idx = -1
             THEN extract_ps_loop(Tail(packets), params)
             ELSE extract_ps_loop(Tail(packets),
                      seen_put(params, decode_ascii(Slice(payload, 4, null_idx)),
                               decode_ascii(Slice(payload, val_start, val_end))))

\* discover_parameters.extract_ps_params
extract_ps_params(packets) ==
    [params |-> extract_ps_loop(packets, <<>>), raised |-> FALSE]

\* tokens with and without NUL bytes
Tokens == {<<0, 0, 0, 0>>, <<114, 0, 101, 0>>, <<1, 2, 3, 4>>, <<255, 0, 0, 255>>}
\* 'a', 'a/b' and 'main/ch1/volume'
Paths == {<<97>>, <<97, 47, 98>>, KEY_MAIN_CH1_VOLUME}
\* 0.5, 0.0, -0.0, inf, NaN, a signalling NaN, the least and the greatest
\* positive float, -10.0, and patterns with the magic and NUL bytes in them
ValuePatterns ==
    {<<0, 0, 0, 63>>, <<0, 0, 0, 0>>, <<0, 0, 0, 128>>, <<0, 0, 128, 127>>,
     <<0, 0, 192, 127>>, <<1, 0, 128, 127>>, <<1, 0, 0, 0>>, <<255, 255, 127, 127>>,
     <<0, 0, 32, 193>>, MAGIC, <<0, 85, 67, 0>>, <<205, 204, 204, 61>>}

FloatRoundTripArgs ==
    {[op |-> "float_round_trip",
      arg |-> [path |-> pa, value |-> unpack_f32(v), token |-> t],
      out |-> <<>>, done |-> FALSE] : pa \in Paths, v \in ValuePatterns, t \in Tokens}

\* extract_pv_params(parse_packets(build_pv(path, value, token)))
FloatRoundTripCall ==
    /\ prm.op = "float_round_trip" /\ ~prm.done
    /\ prm' = [prm EXCEPT
                  !.out = extract_pv_params(parse_packets(
                              build_pv_f32(prm.arg.path, prm.arg.value, prm.arg.token))),
                  !.done = TRUE]
    /\ UNCHANGED notParams

\* C13: a float parameter built by build_pv and decoded by parse_packets and
\* extract_pv_params is the single mapping path -> value, for every token.
FloatRoundTrip ==
    (prm.op = "float_round_trip" /\ prm.done) =>
        /\ ~prm.out.raised
        /\ prm.out.params = <<(<<prm.arg.path, prm.arg.value>>)>>

\* a NaN sent with a token that starts with NUL bytes has been decoded
FloatRoundTripWitness ==
    /\ prm.op = "float_round_trip" /\ prm.done
    /\ prm.arg.token[1] = 0
    /\ prm.arg.value.e = 255 /\ prm.arg.value.m # 0
    /\ Len(prm.out.params) = 1

\* a packet as parse_packets returns it, for a payload taken as it is
PacketOf(ptype, payload) ==
    [offset |-> 0, size |-> 2 + Len(payload), type |-> ptype, payload |-> payload]

\* the PS payload: token + path + NUL + 2 padding bytes + value, with or
\* without the NUL that ends the value
ps_payload(token, path, value, terminated) ==
    token \o path \o <<0>> \o <<0, 0>> \o value \o (IF terminated THEN <<0>> ELSE <<>>)

\* '', 'x' and 'xy'
StringValues == {<<>>, <<120>>, <<120, 121>>}

StringRoundTripArgs ==
    {[op |-> "string_round_trip", arg |-> [path |-> pa, value |-> v, token |-> t],
      out |-> <<>>, done |-> FALSE] : pa \in Paths, v \in StringValues, t \in Tokens}

\* extract_ps_params on the packet that carries the PS payload
StringRoundTripCall ==
    /\ prm.op = "string_round_trip" /\ ~prm.done
    /\ prm' = [prm EXCEPT
                  !.out = extract_ps_params(<<PacketOf(TYPE_PS,
                              ps_payload(prm.arg.token, prm.arg.path, prm.arg.value, TRUE))>>),
                  !.done = TRUE]
    /\ UNCHANGED notParams

\* C14: a string parameter laid out as token + path + NUL + 2 padding bytes +
\* value + NUL is decoded by extract_ps_params as the single mapping
\* path -> value, also for a one-character path and for the empty value.
StringRoundTrip ==
    (prm.op = "string_round_trip" /\ prm.done) =>
        prm.out.params = <<(<<prm.arg.path, prm.arg.value>>)>>

\* paths of 3 and more characters: the payload has 10 bytes or more
ExtentPaths == {<<97, 47, 98>>, KEY_MAIN_CH1_VOLUME}

StringExtentArgs ==
    {[op |-> "string_extent",
      arg |-> [path |-> pa, value |-> v, token |-> t, terminated |-> z],
      out |-> <<>>, done |-> FALSE] :
        pa \in ExtentPaths, v \in StringValues, t \in Tokens, z \in BOOLEAN}

\* both PS decoders on one payload: extract_ps_params and the PS branch of
\* listen_params.parse_packets
StringExtentCall ==
    /\ prm.op = "string_extent" /\ ~prm.done
    /\ LET payload == ps_payload(prm.arg.token, prm.arg.path, prm.arg.value,
                                 prm.arg.terminated)
       IN  prm' = [prm EXCEPT
                      !.out = [discover |-> extract_ps_params(<<PacketOf(TYPE_PS, payload)>>),
                               listen   |-> listen_yield(TYPE_PS, payload)],
                      !.done = TRUE]
    /\ UNCHANGED notParams

\* C15: both PS decoders take as the value the bytes from 3 after the path's
\* NUL up to the next NUL, or up to the end of the payload if there is none.
StringValueExtent ==
    (prm.op = "string_extent" /\ prm.done) =>
        /\ prm.out.discover.params = <<(<<prm.arg.path, prm.arg.value>>)>>
        /\ prm.out.listen = <<[type |-> "PS", key |-> prm.arg.path,
                               value |-> TextVal(prm.arg.value)]>>

MaxPad == 4

\* the PV payload with w padding bytes: token + path + NUL + w NULs + value
pv_payload_padded(token, path, w, value) ==
    token \o path \o <<0>> \o [i \in 1..w |-> 0] \o value

PaddingArgs ==
    {[op |-> "padding", arg |-> [path |-> pa, value |-> v, token |-> t, w |-> w],
      out |-> <<>>, done |-> FALSE] :
        pa \in Paths, v \in ValuePatterns, t \in {<<114, 0, 101, 0>>}, w \in 0..MaxPad}

\* extract_pv_params on the packet that carries the padded payload
PaddingCall ==
    /\ prm.op = "padding" /\ ~prm.done
    /\ prm' = [prm EXCEPT
                  !.out = extract_pv_params(<<PacketOf(TYPE_PV,
                              pv_payload_padded(prm.arg.token, prm.arg.path, prm.arg.w,
                                                prm.arg.value))>>),
                  !.done = TRUE]
    /\ UNCHANGED notParams

\* C16: whatever the number of padding bytes, extract_pv_params returns the
\* path with the last 4 bytes of the payload as its value.
ValueAddressedFromEnd ==
    (prm.op = "padding" /\ prm.done) =>
        prm.out.params = <<(<<prm.arg.path, unpack_f32(prm.arg.value)>>)>>

\* monitor_and_send.build_param_pv
mon_build_param_pv(path, value) ==
    mon_build_packet(TYPE_PV, <<117, 0, 104, 0>> \o path \o <<0, 0, 0>> \o pack_f(value))

\* monitor_and_send.build_param_ps
mon_build_param_ps(path, value) ==
    mon_build_packet(TYPE_PS, <<106, 0, 101, 0>> \o path \o <<0>> \o <<0, 0>> \o pack_f(value))

\* test_ucnet_network.build_parameter_set_packet
net_build_parameter_set_packet(key, value) ==
    net_build_packet(TYPE_PS, <<106, 0, 101, 0>> \o key \o <<0>> \o <<0, 0>> \o pack_f(value))

\* test_ucnet_network.build_parameter_value_packet
net_build_parameter_value_packet(key, value) ==
    net_build_packet(TYPE_PV, <<114, 0, 101, 0>> \o key \o <<0>> \o <<0, 0>> \o pack_f(value))

GapBuilders == {"build_pv", "build_param", "build_param_pv", "build_param_ps",
                "build_parameter_packet", "build_parameter_value_packet",
                "build_parameter_set_packet"}

\* the frame a float-parameter builder emits
BuildFloat(builder, path, value) ==
    CASE builder = "build_pv"                     -> build_pv(path, value, UC_CBYTES)
      [] builder = "build_param"                  -> quick_build_param(path, value)
      [] builder = "build_param_pv"               -> mon_build_param_pv(path, value)
      [] builder = "build_param_ps"               -> mon_build_param_ps(path, value)
      [] builder = "build_parameter_packet"       -> build_parameter_packet(path, value)
      [] builder = "build_parameter_value_packet" -> net_build_parameter_value_packet(path, value)
      [] builder = "build_parameter_set_packet"   -> net_build_parameter_set_packet(path, value)

\* paths of 1 to 5 characters and the two paths the scripts use
GapPaths == {<<97>>, <<97, 98>>, <<97, 47, 98>>, <<97, 98, 99, 100>>, <<97, 98, 47, 99, 100>>,
             KEY_MAIN_CH1_VOLUME, KEY_MAIN_OUT_VOLUME}

GapArgs ==
    {[op |-> "gap", arg |-> [builder |-> b, path |-> pa, value |-> v],
      out |-> <<>>, done |-> FALSE] : b \in GapBuilders, pa \in GapPaths, v \in FloatValues}

\* one call of a float-parameter builder
GapCall ==
    /\ prm.op = "gap" /\ ~prm.done
    /\ prm' = [prm EXCEPT !.out = BuildFloat(prm.arg.builder, prm.arg.path, prm.arg.value),
                          !.done = TRUE]
    /\ UNCHANGED notParams

\* C17: every float-parameter builder emits the path, its NUL, exactly two
\* zero bytes and the 4 value bytes after the 4-byte token: the payload is
\* len(path) + 11 bytes long.
FixedGap ==
    (prm.op = "gap" /\ prm.done) =>
        LET payload == Slice(prm.out, 8, Len(prm.out))
            n       == Len(prm.arg.path)
        IN  /\ Len(payload) = n + 11
            /\ Slice(payload, 4, 4 + n) = prm.arg.path
            /\ Slice(payload, 4 + n, 4 + n + 3) = <<0, 0, 0>>
            /\ Slice(payload, 4 + n + 3, Len(payload)) = pack_f(prm.arg.value)

\* build_parameter_packet has built a frame for a path whose length would
\* ask for another padding under 4-byte alignment
FixedGapWitness ==
    /\ prm.op = "gap" /\ prm.done
    /\ prm.arg.builder = "build_parameter_packet"
    /\ Len(prm.arg.path) = 15
    /\ prm.arg.value = -10000
    /\ Len(prm.out) = 34

MaxPackets == 3
\* payloads of PV and PS packets: well formed ('a' = 0.5, 'a' = "xyz"), too
\* short, without a NUL from offset 4 on, with the NUL as the last byte, with
\* an empty key and with bytes above 127
MalformedPayloads ==
    {<<>>, <<1, 2, 3>>, <<114, 0, 101, 0, 97, 0, 0, 0, 0>>,
     <<114, 0, 101, 0, 97, 98, 99, 100, 101, 102, 103, 104>>}
OddPayloads ==
    {<<1, 2, 3, 4, 5, 6, 7, 8, 9, 0>>, <<1, 2, 3, 4, 0, 200, 0, 0, 128, 255, 255, 255>>}
WellFormedPayloads ==
    {<<114, 0, 101, 0, 97, 0, 0, 0, 0, 0, 0, 63>>,
     <<114, 0, 101, 0, 98, 0, 0, 0, 120, 121, 122, 0>>}
PacketPayloads == MalformedPayloads \cup OddPayloads \cup WellFormedPayloads

RECURSIVE PacketLists(_)
PacketLists(n) ==
    IF n = 0 THEN {<<>>}
    ELSE LET shorter == PacketLists(n - 1)
         IN  shorter \cup {Append(l, PacketOf(t, pl)) :
                              l \in shorter, t \in {TYPE_PV, TYPE_PS}, pl \in PacketPayloads}

MalformedArgs ==
    {[op |-> "malformed", arg |-> l, out |-> <<>>, done |-> FALSE] :
        l \in PacketLists(MaxPackets) \ {<<>>}}

\* extract_pv_params and extract_ps_params on one list of packets
MalformedCall ==
    /\ prm.op = "malformed" /\ ~prm.done
    /\ prm' = [prm EXCEPT !.out = [pv |-> extract_pv_params(prm.arg),
                                   ps |-> extract_ps_params(prm.arg)],
                          !.done = TRUE]
    /\ UNCHANGED notParams

\* a payload shorter than 10 bytes or without a NUL at or after offset 4
IsMalformed(payload) == Len(payload) < 10 \/ Find(payload, <<0>>, 4) = -1

\* the packets of a list whose payload is not malformed, in order
RECURSIVE WithoutMalformed(_)
WithoutMalformed(l) ==
    IF l = <<>> THEN <<>>
    ELSE IF IsMalformed(Head(l).payload) THEN WithoutMalformed(Tail(l))
    ELSE <<Head(l)>> \o WithoutMalformed(Tail(l))

HasKey(params, key) == \E i \in 1..Len(params) : params[i][1] = key

\* C18: extract_pv_params and extract_ps_params return without raising; a
\* malformed packet contributes no entry, and every well-formed packet of the
\* list, also one after a malformed packet, has its entry.
MalformedSkipped ==
    (prm.op = "malformed" /\ prm.done) =>
        /\ ~prm.out.pv.raised /\ ~prm.out.ps.raised
        /\ prm.out.pv.params = extract_pv_params(WithoutMalformed(prm.arg)).params
        /\ prm.out.ps.params = extract_ps_params(WithoutMalformed(prm.arg)).params
        /\ (\A i \in 1..Len(prm.arg) : IsMalformed(prm.arg[i].payload)) =>
               prm.out.pv.params = <<>> /\ prm.out.ps.params = <<>>
        /\ \A i \in 1..Len(prm.arg) :
              prm.arg[i].payload \in WellFormedPayloads =>
                  /\ prm.arg[i].type = TYPE_PV =>
                        HasKey(prm.out.pv.params, Slice(prm.arg[i].payload, 4, 5))
                  /\ prm.arg[i].type = TYPE_PS =>
                        HasKey(prm.out.ps.params, Slice(prm.arg[i].payload, 4, 5))

\* a list with a 3-byte payload first and a well-formed PV packet after it
\* has been decoded
MalformedSkippedWitness ==
    /\ prm.op = "malformed" /\ prm.done
    /\ Len(prm.arg) = 3
    /\ prm.arg[1].type = TYPE_PV /\ Len(prm.arg[1].payload) = 3
    /\ prm.arg[2].type = TYPE_PS /\ IsMalformed(prm.arg[2].payload)
    /\ prm.arg[3].type = TYPE_PV /\ prm.arg[3].payload \in WellFormedPayloads
    /\ Len(prm.out.pv.params) = 1


\* what the buffer holds before the reply frame: nothing (the reply is the
\* first frame received), a byte, one and two keepalive frames
ReplyLeads ==
    {<<>>, <<9>>, build_packet(TYPE_KA, KA_PAYLOAD),
     build_packet(TYPE_KA, KA_PAYLOAD) \o build_packet(TYPE_PV, PV_PAYLOAD)}

TokenExtractArgs ==
    {[op |-> "token_extract", arg |-> [lead |-> l, token |-> t, default |-> d],
      out |-> <<>>, done |-> FALSE] :
        l \in ReplyLeads, t \in PeerTokens, d \in {EJ_CBYTES, UC_CBYTES}}

\* the search for the session CBytes in a buffer that holds the reply frame
TokenExtractCall ==
    /\ prm.op = "token_extract" /\ ~prm.done
    /\ prm' = [prm EXCEPT
                  !.out = extract_session_cbytes(
                              prm.arg.lead \o peer_json_frame(prm.arg.token, REPLY_JSON),
                              prm.arg.default, 50),
                  !.done = TRUE]
    /\ UNCHANGED notParams

\* C21: when the buffer holds a JM frame with the acceptance marker, the
\* session token is the 4 bytes after that frame's type tag, at every offset
\* of the frame in the buffer, offset 0 included.
SessionTokenExtraction ==
    (prm.op = "token_extract" /\ prm.done) => prm.out = prm.arg.token

\* ---------------------------------------------------------------------
\* parse_zb_packets.py: the strings and paths of a decompressed ZB payload
\* ---------------------------------------------------------------------

MaxRun == 4

\* [a-zA-Z]
IsLetter(b) == (b >= 65 /\ b <= 90) \/ (b >= 97 /\ b <= 122)
\* [a-zA-Z0-9_]
IsWordByte(b) == IsLetter(b) \/ (b >= 48 /\ b <= 57) \/ b = 95

\* [a-zA-Z0-9_]* from offset i: the offset after the longest run
RECURSIVE word_run(_, _)
word_run(s, i) ==
    IF i < Len(s) /\ IsWordByte(s[i + 1]) THEN word_run(s, i + 1) ELSE i

\* [a-zA-Z][a-zA-Z0-9_]* at offset i: the offset after the match, -1 for none
match_identifier(s, i) ==
    IF i < Len(s) /\ IsLetter(s[i + 1]) THEN word_run(s, i + 1) ELSE -1

\* (/[a-zA-Z][a-zA-Z0-9_]*)+$ at offset i, n groups matched so far; $ is the
\* end of the string or the position before a final newline
RECURSIVE match_groups(_, _, _)
match_groups(s, i, n) ==
    IF i = Len(s) \/ (i = Len(s) - 1 /\ s[Len(s)] = 10)
    THEN n >= 1
    ELSE IF s[i + 1] = 47
         THEN LET e == match_identifier(s, i + 1)
              IN  IF e = -1 THEN FALSE ELSE match_groups(s, e, n + 1)
         ELSE FALSE

\* path_pattern.match(s)
path_pattern_match(s) ==
    LET e == match_identifier(s, 0)
    IN  e # -1 /\ match_groups(s, e, 0)

find_parameter_paths(strings) == SelectSeq(strings, path_pattern_match)

\* the strings of data: runs of the bytes 32..126 of length min_len or more
RECURSIVE extract_strings_loop(_, _, _, _, _)
extract_strings_loop(data, min_len, i, current, strings) ==
    IF i > Len(data)
    THEN IF Len(current) >= min_len THEN Append(strings, current) ELSE strings
    ELSE IF 32 <= data[i] /\ data[i] < 127
         THEN extract_strings_loop(data, min_len, i + 1,
                                   Append(current, data[i]), strings)
         ELSE extract_strings_loop(data, min_len, i + 1, <<>>,
                  IF Len(current) >= min_len THEN Append(strings, current)
                                             ELSE strings)

extract_strings(data, min_len) == extract_strings_loop(data, min_len, 1, <<>>, <<>>)

\* the 'size', 'strings' and 'paths' entries of the result (the 'floats'
\* entry is computed from the same bytes and changes none of the three)
analyze_decompressed(data) ==
    LET strings == extract_strings(data, 3)
    IN  [size |-> Len(data), strings |-> strings,
         paths |-> find_parameter_paths(strings)]

\* the bytes of a run: a letter, a digit, '_', '/' and a space
RunBytes == {97, 49, 95, 47, 32}

PathGrammarArgs ==
    {[op |-> "path_grammar", arg |-> s, out |-> <<>>, done |-> FALSE] :
        s \in UNION {[1..n -> RunBytes] : n \in 1..MaxRun}}

PathGrammarCall ==
    /\ prm.op = "path_grammar" /\ ~prm.done
    /\ prm' = [prm EXCEPT !.out = find_parameter_paths(<<prm.arg>>),
                          !.done = TRUE]
    /\ UNCHANGED notParams

\* the segments of a run, cut at each '/'
RECURSIVE SegmentsFrom(_, _, _)
SegmentsFrom(s, i, current) ==
    IF i > Len(s) THEN <<current>>
    ELSE IF s[i] = 47 THEN <<current>> \o SegmentsFrom(s, i + 1, <<>>)
         ELSE SegmentsFrom(s, i + 1, Append(current, s[i]))

IsIdentifier(seg) ==
    /\ seg # <<>>
    /\ IsLetter(seg[1])
    /\ \A i \in 1..Len(seg) : IsWordByte(seg[i])

\* one or more '/'-separated identifier segments
IsSegmentedPath(s) ==
    LET segs == SegmentsFrom(s, 1, <<>>)
    IN  \A k \in 1..Len(segs) : IsIdentifier(segs[k])

\* C28: find_parameter_paths accepts a printable run if and only if the run
\* is one or more '/'-separated identifier segments, each starting with a
\* letter and continuing with letters, digits or underscores.
PathGrammar ==
    (prm.op = "path_grammar" /\ prm.done) =>
        ((prm.out = <<prm.arg>>) <=> IsSegmentedPath(prm.arg))

\* 'main/ch1/pan'
KEY_MAIN_CH1_PAN == <<109, 97, 105, 110, 47, 99, 104, 49, 47, 112, 97, 110>>

\* multi-segment paths: 'a/b', 'main/ch1/pan' and 'main/ch1/volume'
BulkPaths == {<<97, 47, 98>>, KEY_MAIN_CH1_PAN, KEY_MAIN_CH1_VOLUME}

\* a decompressed buffer: the path with the 4 bytes of a float directly
\* before or directly after it, between no or one zero byte on each side
BulkArgs ==
    {[op |-> "bulk_paths",
      arg |-> [path |-> p, value |-> v, side |-> sd, lead |-> l, trail |-> t],
      out |-> <<>>, done |-> FALSE] :
        p \in BulkPaths, v \in FloatValues, sd \in {"before", "after"},
        l \in {<<>>, <<0>>}, t \in {<<>>, <<0>>}}

BulkBuffer(a) ==
    a.lead \o (IF a.side = "before" THEN pack_f(a.value) \o a.path
                                    ELSE a.path \o pack_f(a.value)) \o a.trail

BulkCall ==
    /\ prm.op = "bulk_paths" /\ ~prm.done
    /\ prm' = [prm EXCEPT !.out = analyze_decompressed(BulkBuffer(prm.arg)),
                          !.done = TRUE]
    /\ UNCHANGED notParams

\* C29: a buffer that holds a multi-segment path with the 4 bytes of a float
\* directly before or directly after it has that path in its 'paths' result.
BulkPathDiscovery ==
    (prm.op = "bulk_paths" /\ prm.done) =>
        \E k \in 1..Len(prm.out.paths) : prm.out.paths[k] = prm.arg.path


\* ---------------------------------------------------------------------
\* parse_zb_packets.py: the zlib stream of a ZB payload
\* ---------------------------------------------------------------------

\* the Adler-32 checksum of data as the 4 big-endian bytes that end a stream
RECURSIVE adler32_loop(_, _, _, _)
adler32_loop(data, i, a, b) ==
    IF i > Len(data)
    THEN <<b \div 256, b % 256, a \div 256, a % 256>>
    ELSE LET a1 == (a + data[i]) % 65521
         IN  adler32_loop(data, i + 1, a1, (b + a1) % 65521)

adler32_bytes(data) == adler32_loop(data, 1, 1, 0)

ZlibError == [ok |-> FALSE, out |-> <<>>, huffman |-> FALSE]

\* the deflate blocks of a stream from offset pos: stored blocks are decoded
\* (block header, LEN, its complement NLEN, LEN bytes), block type 3 is
\* invalid, and a stream that ends early or fails its checksum is an error.
\* Huffman-coded blocks (types 1 and 2) are not decoded: no payload drawn
\* holds one after a signature, and the result says so if one is met.
RECURSIVE inflate_blocks(_, _, _)
inflate_blocks(data, pos, out) ==
    IF pos >= Len(data) THEN ZlibError
    ELSE LET bfinal == data[pos + 1] % 2
             btype  == (data[pos + 1] \div 2) % 4
         IN  IF btype \in {1, 2} THEN [ZlibError EXCEPT !.huffman = TRUE]
             ELSE IF btype = 3 \/ pos + 5 > Len(data) THEN ZlibError
             ELSE LET len  == unpack_H(Slice(data, pos + 1, pos + 3))
                      nlen == unpack_H(Slice(data, pos + 3, pos + 5))
                      end  == pos + 5 + len
                      more == out \o Slice(data, pos + 5, end)
                  IN  IF len + nlen # 65535 \/ end > Len(data) THEN ZlibError
                      ELSE IF bfinal = 0 THEN inflate_blocks(data, end, more)
                      ELSE IF end + 4 > Len(data) THEN ZlibError
                      ELSE IF Slice(data, end, end + 4) # adler32_bytes(more)
                           THEN ZlibError
                           ELSE [ok |-> TRUE, out |-> more, huffman |-> FALSE]

\* zlib.decompress(data): the 2-byte header (method 8, window at most 32K,
\* a multiple of 31, no preset dictionary), the blocks and the checksum;
\* bytes after the end of the stream are ignored; ok = FALSE is zlib.error
zlib_decompress(data) ==
    IF Len(data) < 2 THEN ZlibError
    ELSE IF \/ data[1] % 16 # 8
            \/ data[1] \div 16 > 7
            \/ (data[1] * 256 + data[2]) % 31 # 0
            \/ (data[2] \div 32) % 2 = 1
         THEN ZlibError
         ELSE inflate_blocks(data, 2, <<>>)

IsZlibSignature(payload, i) ==
    payload[i + 1] = 120 /\ payload[i + 2] \in {1, 156, 218}

\* a scan that gives up at the first signature that fails to decompress
RECURSIVE decompress_zb_gives_up(_, _)
decompress_zb_gives_up(payload, i) ==
    IF i >= Len(payload) - 2 THEN <<>>
    ELSE IF IsZlibSignature(payload, i)
         THEN zlib_decompress(Slice(payload, i, Len(payload))).out
         ELSE decompress_zb_gives_up(payload, i + 1)

\* the loop of decompress_zb from offset i
RECURSIVE decompress_zb_from(_, _)
decompress_zb_from(payload, i) ==
    IF i >= Len(payload) - 2 THEN <<>>
    ELSE IF /\ IsZlibSignature(payload, i)
            /\ zlib_decompress(Slice(payload, i, Len(payload))).ok
         THEN zlib_decompress(Slice(payload, i, Len(payload))).out
         ELSE decompress_zb_from(payload, i + 1)

decompress_zb(payload) == decompress_zb_from(payload, 0)

\* a zlib stream of one stored block, as zlib.compress(data, 0) writes it,
\* with the second header byte flg
zlib_stored(data, flg) ==
    <<120, flg, 1>> \o pack_H(Len(data)) \o pack_H(65535 - Len(data))
        \o data \o adler32_bytes(data)

\* 'a' and 'a/b'
ZbData == {<<97>>, <<97, 47, 98>>}

ZbStreams == {zlib_stored(d, flg) : d \in ZbData, flg \in {1, 156, 218}}

\* a stream whose checksum is wrong, and a stream cut before its checksum
ZbDamaged ==
    {SubSeq(s, 1, Len(s) - 1) \o <<(s[Len(s)] + 1) % 256>> : s \in ZbStreams}
        \cup {SubSeq(s, 1, Len(s) - 4) : s \in ZbStreams}

\* what a payload holds before its stream: nothing, the CBytes and a length,
\* header bytes that carry a signature (before a stream, before an invalid
\* block type, before a stored block of a wrong length), the header 78 5e
\* that is no signature, and a damaged stream
ZbLeads ==
    {<<>>, UC_CBYTES \o pack_I(3), UC_CBYTES \o <<120, 218>>, <<120, 156, 7>>,
     <<120, 1, 0, 0>>, <<120, 94>>, <<120, 1, 120, 156, 6>>} \cup ZbDamaged

\* what follows: nothing, a zero byte, another stream
ZbTrails == {<<>>, <<0>>, zlib_stored(<<98>>, 156)}

ZbArgs ==
    {[op |-> "decompress_zb", arg |-> [lead |-> l, stream |-> s, trail |-> t],
      out |-> <<>>, done |-> FALSE] :
        l \in ZbLeads, s \in ZbStreams \cup {<<>>, <<120, 156>>}, t \in ZbTrails}

ZbPayload(a) == a.lead \o a.stream \o a.trail

ZbCall ==
    /\ prm.op = "decompress_zb" /\ ~prm.done
    /\ prm' = [prm EXCEPT !.out = decompress_zb(ZbPayload(prm.arg)),
                          !.done = TRUE]
    /\ UNCHANGED notParams

\* the offsets of payload that carry the signature
SignatureOffsets(payload) ==
    {i \in 0..(Len(payload) - 2) : IsZlibSignature(payload, i)}

\* the signature offsets from which decompression succeeds
StreamOffsets(payload) ==
    {i \in SignatureOffsets(payload) :
        zlib_decompress(Slice(payload, i, Len(payload))).ok}

\* C30: decompress_zb returns the decompression of payload[i:] for the
\* smallest offset i that carries the signature 0x78 0x01/0x9c/0xda and from
\* which decompression succeeds; signature offsets before it that fail to
\* decompress are skipped.
SignatureScan ==
    (prm.op = "decompress_zb" /\ prm.done
        /\ StreamOffsets(ZbPayload(prm.arg)) # {}) =>
        LET payload == ZbPayload(prm.arg)
            i == SetMin(StreamOffsets(payload))
        IN  prm.out = zlib_decompress(Slice(payload, i, Len(payload))).out

\* a payload whose first signature fails to decompress and whose stream,
\* further on, has been returned
SignatureScanWitness ==
    /\ prm.op = "decompress_zb" /\ prm.done
    /\ prm.arg.stream \in ZbStreams
    /\ LET payload == ZbPayload(prm.arg)
       IN  /\ StreamOffsets(payload) # {}
           /\ SetMin(SignatureOffsets(payload)) < SetMin(StreamOffsets(payload))
           /\ SetMin(StreamOffsets(payload)) = Len(prm.arg.lead)
    /\ prm.out \in ZbData


\* ---------------------------------------------------------------------
\* parse_zb_packets.py: main, the ZB packets of a dump
\* ---------------------------------------------------------------------

MaxZbPackets == 2

\* parse_zb_packets.find_packets: the loop of discover_parameters.parse_packets
find_packets(data) == parse_packets_from(data, 0, <<>>)

\* [p for p in packets if p['type_str'] == 'ZB']
IsZbPacket(pkt) == pkt.type = TYPE_ZB

\* the payloads of the ZB packets of a dump: empty, one byte, bytes with no
\* signature, a signature before an invalid block, a stream whose checksum is
\* wrong, and the stream of 'a/b'
ZbMainPayloads ==
    {<<>>, <<120>>, <<9, 9, 9>>, <<120, 156, 7>>,
     SubSeq(zlib_stored(<<97, 47, 98>>, 156), 1, 13) \o <<0>>,
     zlib_stored(<<97, 47, 98>>, 156)}

RECURSIVE ZbFrames(_)
ZbFrames(payloads) ==
    IF payloads = <<>> THEN <<>>
    ELSE build_packet(TYPE_ZB, Head(payloads)) \o ZbFrames(Tail(payloads))

\* the dump file: ZB frames one after the other, with or without a byte after
ZbMainArgs ==
    {[op |-> "zb_main", arg |-> [payloads |-> ps, trail |-> t],
      out |-> [pc |-> "read", zb_packets |-> <<>>, i |-> 0, failed |-> {},
               all_paths |-> {}, all_strings |-> {}],
      done |-> FALSE] :
        ps \in UNION {[1..n -> ZbMainPayloads] : n \in 1..MaxZbPackets},
        t \in {<<>>, <<0>>}}

\* lines 137-160: the file is read and its ZB packets are listed
ZbMainFind ==
    /\ prm.op = "zb_main" /\ ~prm.done /\ prm.out.pc = "read"
    /\ prm' = [prm EXCEPT
                  !.out.pc = "loop",
                  !.out.zb_packets =
                      SelectSeq(find_packets(ZbFrames(prm.arg.payloads)
                                                 \o prm.arg.trail),
                                IsZbPacket)]
    /\ UNCHANGED notParams

\* lines 165-192: one pass of the loop over zb_packets
ZbMainPacket ==
    /\ prm.op = "zb_main" /\ ~prm.done /\ prm.out.pc = "loop"
    /\ prm.out.i < Len(prm.out.zb_packets)
    /\ LET i == prm.out.i + 1
           decompressed == decompress_zb(prm.out.zb_packets[i].payload)
           analysis == analyze_decompressed(decompressed)
       IN  prm' = [prm EXCEPT
                      !.out.i = i,
                      !.out.failed =
                          IF decompressed # <<>> THEN @ ELSE @ \cup {i},
                      !.out.all_paths =
                          IF decompressed # <<>>
                          THEN @ \cup {analysis.paths[k] :
                                           k \in 1..Len(analysis.paths)}
                          ELSE @,
                      !.out.all_strings =
                          IF decompressed # <<>>
                          THEN @ \cup {analysis.strings[k] :
                                           k \in 1..Len(analysis.strings)}
                          ELSE @]
    /\ UNCHANGED notParams

\* the loop is left
ZbMainDone ==
    /\ prm.op = "zb_main" /\ ~prm.done /\ prm.out.pc = "loop"
    /\ prm.out.i = Len(prm.out.zb_packets)
    /\ prm' = [prm EXCEPT !.out.pc = "summary", !.done = TRUE]
    /\ UNCHANGED notParams

\* C31: decoding a dump never fails on a ZB payload: a payload with no
\* signature or a corrupt stream gives the empty result and no path, and
\* every ZB packet of the dump, those after such a payload included, is
\* processed.
BulkDecodingNotFatal ==
    (prm.op = "zb_main" /\ prm.done) =>
        LET payloads == prm.arg.payloads
            Fails(k) == StreamOffsets(payloads[k]) = {}
        IN  /\ (\E k \in 1..(Len(payloads) - 1) : Fails(k)) =>
                   prm.out.i = Len(payloads)
            /\ \A k \in 1..prm.out.i : Fails(k) <=> k \in prm.out.failed
            /\ prm.out.all_paths =
                   IF \E k \in 1..prm.out.i : ~Fails(k)
                   THEN {<<97, 47, 98>>} ELSE {}


\* ---------------------------------------------------------------------
\* usb_capture/test_quantum_usb.py: the frame written to the USB pipe
\* ---------------------------------------------------------------------

\* the default c_bytes 'j' 'e' of build_ucnet_packet
USB_DEFAULT_CBYTES == <<106, 0, 101, 0>>

\* test_quantum_usb.build_ucnet_packet for a bytes payload; given = FALSE is
\* the call without c_bytes
usb_build_ucnet_packet(payload_type, payload, given, c_bytes) ==
    LET c == IF given THEN c_bytes ELSE USB_DEFAULT_CBYTES
    IN  MAGIC \o payload_type \o c \o pack_H(Len(payload)) \o payload

UsbFrameArgs ==
    {[op |-> "usb_frame",
      arg |-> [ptype |-> t, payload |-> PayloadOf(n, f), given |-> g,
               c_bytes |-> UC_CBYTES],
      out |-> <<>>, done |-> FALSE] :
        t \in TypeTags, n \in 0..2, f \in PayloadFills, g \in BOOLEAN}

\* the same type tag and payload given to both builders
UsbFrameCall ==
    /\ prm.op = "usb_frame" /\ ~prm.done
    /\ prm' = [prm EXCEPT
                  !.out = [usb |-> usb_build_ucnet_packet(prm.arg.ptype,
                                       prm.arg.payload, prm.arg.given,
                                       prm.arg.c_bytes),
                           tcp |-> net_build_packet(prm.arg.ptype,
                                                    prm.arg.payload)],
                  !.done = TRUE]
    /\ UNCHANGED notParams

\* C32: the frame built for the USB transport has the layout of the TCP
\* build_packet: MAGIC, the 16-bit little-endian size 2+len(payload), the
\* type tag, the payload.
SameWireFormat ==
    (prm.op = "usb_frame" /\ prm.done) =>
        /\ prm.out.usb = MAGIC \o pack_H(2 + Len(prm.arg.payload))
                               \o prm.arg.ptype \o prm.arg.payload
        /\ prm.out.usb = prm.out.tcp


\* ---------------------------------------------------------------------
\* the PV decoders: where the path ends and where the value bytes start
\* ---------------------------------------------------------------------

MaxBody == 6

PvDecoders == {"extract_pv_params", "listen_params", "receiver_thread", "_handle_packet"}

NoPair == [produced |-> FALSE, nul |-> 0, vstart |-> 0]

\* for each decoder: whether a (path, value) pair is produced from payload,
\* the offset in payload of the NUL that ends the path, and the offset of
\* the first of the 4 bytes unpacked as the value
pv_value_span(decoder, payload) ==
    CASE decoder = "extract_pv_params" ->
            \* discover_parameters.py lines 110-126
            LET null_idx == Find(payload, <<0>>, 4)
            IN  IF Len(payload) < 10 \/ null_idx = -1 THEN NoPair
                ELSE IF Len(payload) >= null_idx + 7
                     THEN [produced |-> TRUE, nul |-> null_idx,
                           vstart |-> Len(payload) - 4]
                     ELSE NoPair
      [] decoder = "listen_params" ->
            \* listen_params.py lines 74-79
            LET null_idx == Find(payload, <<0>>, 4)
            IN  IF null_idx > 4 /\ Len(payload) >= null_idx + 7
                THEN [produced |-> TRUE, nul |-> null_idx,
                      vstart |-> Len(payload) - 4]
                ELSE NoPair
      [] decoder = "receiver_thread" ->
            \* monitor_and_send.py lines 119-129
            IF ~(Len(payload) > 8) THEN NoPair
            ELSE LET rest     == Slice(payload, 4, Len(payload))
                     null_idx == Find(rest, <<0>>, 0)
                 IN  IF null_idx > 0
                     THEN [produced |-> TRUE, nul |-> 4 + null_idx,
                           vstart |-> 4 + (Len(rest) - 4)]
                     ELSE NoPair
      [] decoder = "_handle_packet" ->
            \* test_ucdaemon_control.py lines 258-271
            IF ~(Len(payload) > 4) THEN NoPair
            ELSE LET rest     == Slice(payload, 4, Len(payload))
                     null_idx == Find(rest, <<0>>, 0)
                 IN  IF null_idx > 0 /\ Len(rest) >= null_idx + 5
                     THEN [produced |-> TRUE, nul |-> 4 + null_idx,
                           vstart |-> 4 + (Len(rest) - 4)]
                     ELSE NoPair

\* PV payloads: the token, then up to MaxBody bytes that are a letter, a
\* zero or the last byte of the float 0.5
PvSpanArgs ==
    {[op |-> "pv_span", arg |-> [decoder |-> d, payload |-> UC_CBYTES \o b],
      out |-> NoPair, done |-> FALSE] :
        d \in PvDecoders, b \in UNION {[1..n -> {97, 0, 63}] : n \in 0..MaxBody}}

PvSpanCall ==
    /\ prm.op = "pv_span" /\ ~prm.done
    /\ prm' = [prm EXCEPT !.out = pv_value_span(prm.arg.decoder, prm.arg.payload),
                          !.done = TRUE]
    /\ UNCHANGED notParams

\* C34: in every PV decoder, whenever a (path, value) pair is produced, the 4
\* bytes decoded as the value lie after the NUL that ends the path.
ValueAfterPath ==
    (prm.op = "pv_span" /\ prm.done /\ prm.out.produced) =>
        prm.out.vstart > prm.out.nul


\* ---------------------------------------------------------------------
\* usb_capture/full_monitor.py: try_control_queries
\* ---------------------------------------------------------------------

\* seconds of elapsed time modelled, and loop passes per second
MaxElapsed == 16
TicksPerSecond == 2

\* the query patterns of lines 77-83
queries ==
    <<(<<0, 0, 0, 0>>), <<1, 0, 0, 0>>, <<2, 0, 0, 0>>, <<0, 1, 0, 0>>, MAGIC>>

\* time.time() - start is out.tick / TicksPerSecond; written lists the queries
\* that dev.write accepted with the whole second at which each was written
ControlQueryArgs ==
    {[op |-> "control_queries", arg |-> [duration |-> d],
      out |-> [pc |-> "setup", tick |-> 0, queries_sent |-> 0, query_idx |-> 0,
               written |-> <<>>, failed |-> 0],
      done |-> FALSE] : d \in {MaxElapsed - 5, MaxElapsed}}

\* int(time.time() - start)
CqSeconds == prm.out.tick \div TicksPerSecond

\* line 89
CqDue ==
    CqSeconds % 5 = 0 /\ CqSeconds > prm.out.queries_sent * 5

CqInLoop ==
    /\ prm.op = "control_queries" /\ ~prm.done /\ prm.out.pc = "loop"
    /\ CqSeconds < prm.arg.duration

\* lines 65-73: the interface is claimed, or the setup error returns
CqSetup ==
    /\ prm.op = "control_queries" /\ ~prm.done /\ prm.out.pc = "setup"
    /\ \/ prm' = [prm EXCEPT !.out.pc = "loop"]
       \/ prm' = [prm EXCEPT !.out.pc = "setup error", !.done = TRUE]
    /\ UNCHANGED notParams

\* one pass of the loop in which dev.write accepts the query (lines 89-95);
\* the pass takes no or one tick
CqWrite(d) ==
    /\ CqInLoop /\ CqDue
    /\ prm' = [prm EXCEPT
                  !.out.written =
                      Append(@, [mark |-> CqSeconds,
                                 query |-> queries[(prm.out.query_idx % Len(queries)) + 1]]),
                  !.out.queries_sent = @ + 1,
                  !.out.query_idx = @ + 1,
                  !.out.tick = @ + d]
    /\ UNCHANGED notParams

\* one pass in which dev.write raises USBError (lines 96-97)
CqWriteFails(d) ==
    /\ CqInLoop /\ CqDue
    /\ prm' = [prm EXCEPT !.out.tick = @ + d,
                          !.out.failed = IF @ < 2 THEN @ + 1 ELSE @]
    /\ UNCHANGED notParams

\* one pass in which no query is due: the read and the sleep (lines 99-109)
CqWait ==
    /\ CqInLoop /\ ~CqDue
    /\ prm' = [prm EXCEPT !.out.tick = @ + 1]
    /\ UNCHANGED notParams

\* line 87: the duration is over
CqDone ==
    /\ prm.op = "control_queries" /\ ~prm.done /\ prm.out.pc = "loop"
    /\ ~(CqSeconds < prm.arg.duration)
    /\ prm' = [prm EXCEPT !.out.pc = "done", !.done = TRUE]
    /\ UNCHANGED notParams

\* C37: whatever the write outcomes, at most one query is written per
\* 5-second mark of elapsed time, and the written queries follow the list in
\* round-robin order.
QueryCadence ==
    prm.op = "control_queries" =>
        LET w == prm.out.written
        IN  /\ \A i, j \in 1..Len(w) : i # j => w[i].mark # w[j].mark
            /\ \A i \in 1..Len(w) : w[i].query = queries[((i - 1) % Len(queries)) + 1]


InitParams ==
    prm \in RoundTripArgs \cup FloatRoundTripArgs \cup StringRoundTripArgs
            \cup StringExtentArgs \cup PaddingArgs \cup GapArgs \cup MalformedArgs
            \cup TokenExtractArgs \cup PathGrammarArgs \cup BulkArgs
            \cup ZbArgs \cup ZbMainArgs \cup UsbFrameArgs
            \cup PvSpanArgs \cup ControlQueryArgs

NextParams ==
    \/ RoundTrip
    \/ FloatRoundTripCall
    \/ StringRoundTripCall
    \/ StringExtentCall
    \/ PaddingCall
    \/ GapCall
    \/ MalformedCall
    \/ TokenExtractCall
    \/ PathGrammarCall
    \/ BulkCall
    \/ ZbCall
    \/ ZbMainFind
    \/ ZbMainPacket
    \/ ZbMainDone
    \/ UsbFrameCall
    \/ PvSpanCall
    \/ CqSetup
    \/ \E d \in 0..1 : CqWrite(d)
    \/ \E d \in 0..1 : CqWriteFails(d)
    \/ CqWait
    \/ CqDone

StartParams == InitParams /\ IdleBut("params")

SpecParams == StartParams /\ [][NextParams]_vars

(***************************************************************************)
(* dump_state.py: the packet loop of main                                  *)
(***************************************************************************)
TYPE_ZM == <<90, 77>>

\* struct.unpack('<I', b)[0] of a 4-byte string
unpack_I(b) == b[1] + 256 * b[2] + 65536 * b[3] + 16777216 * b[4]

\* one pass of the while loop of lines 80-129 at `pos`: the new position, what
\* was printed for the packet, and whether struct.unpack raised struct.error,
\* which nothing in main catches
dump_step(all_data, pos) ==
    IF Slice(all_data, pos, pos + 4) # MAGIC
    THEN [pos |-> pos + 1, printed |-> <<>>, raised |-> FALSE]
    ELSE IF Len(Slice(all_data, pos + 4, pos + 6)) # 2
    THEN [pos |-> pos, printed |-> <<>>, raised |-> TRUE]
    ELSE LET size    == unpack_H(Slice(all_data, pos + 4, pos + 6))
             ptype   == Slice(all_data, pos + 6, pos + 8)
             payload == Slice(all_data, pos + 8, pos + 6 + size)
             header  == [at |-> pos, type |-> decode_ascii(ptype), size |-> size]
         IN  IF ptype = TYPE_ZM
             THEN IF Len(Slice(payload, 4, 8)) # 4
                  THEN [pos |-> pos, printed |-> <<header>>, raised |-> TRUE]
                  ELSE [pos |-> pos + 6 + size,
                        printed |-> <<header,
                                      [cbytes |-> Slice(payload, 0, 4),
                                       uncompressed_len |-> unpack_I(Slice(payload, 4, 8)),
                                       compressed |-> Slice(payload, 8, Len(payload))]>>,
                        raised |-> FALSE]
             ELSE IF ptype = TYPE_JSON /\ Len(payload) > 8
             THEN [pos |-> pos + 6 + size,
                   printed |-> <<header,
                                 [json |-> Slice(payload, 8,
                                                 8 + unpack_I(Slice(payload, 4, 8)))]>>,
                   raised |-> FALSE]
             ELSE [pos |-> pos + 6 + size, printed |-> <<header>>, raised |-> FALSE]

MaxDumpPieces == 3
\* what the received data is made of: whole frames, JM and ZM frames whose
\* payload is shorter than the 8-byte prefix, garbage and truncated headers
DumpPieces ==
    {build_packet(TYPE_KA, KA_PAYLOAD),
     peer_json_frame(<<101, 0, 106, 0>>, REPLY_JSON),
     build_packet(TYPE_JSON, <<101, 0, 106, 0>>),
     build_packet(TYPE_ZM, <<101, 0, 106, 0, 3, 0, 0, 0, 120, 156, 1>>),
     build_packet(TYPE_ZM, <<101, 0, 106, 0, 3>>),
     <<9>>, MAGIC, MAGIC \o <<5>>}

RECURSIVE DumpData(_)
DumpData(n) ==
    IF n = 0 THEN {<<>>}
    ELSE LET shorter == DumpData(n - 1)
         IN  shorter \cup {s \o p : s \in shorter, p \in DumpPieces}

\* the state after the socket is closed (line 76): all_data is what was read
InitDump ==
    \E d \in DumpData(MaxDumpPieces) :
        dmp = [phase |-> "parsing", all_data |-> d, pos |-> 0, printed |-> <<>>]

\* one pass of the packet loop
DumpPass ==
    /\ dmp.phase = "parsing"
    /\ dmp.pos < Len(dmp.all_data)
    /\ LET r == dump_step(dmp.all_data, dmp.pos)
       IN  dmp' = [dmp EXCEPT !.pos = r.pos, !.printed = dmp.printed \o r.printed,
                              !.phase = IF r.raised THEN "raised" ELSE "parsing"]
    /\ UNCHANGED notDump

\* the loop ends at the end of the data and "Done" is printed (line 131)
DumpDone ==
    /\ dmp.phase = "parsing"
    /\ ~(dmp.pos < Len(dmp.all_data))
    /\ dmp' = [dmp EXCEPT !.phase = "done"]
    /\ UNCHANGED notDump

NextDump == DumpPass \/ DumpDone

StartDump == InitDump /\ IdleBut("dump")

SpecDump == StartDump /\ [][NextDump]_vars

\* C19: the packet loop of dump_state.main never ends in an uncaught
\* exception: a truncated header and a ZM or JM frame with a payload shorter
\* than 8 bytes are skipped.
CorruptFrameSkipped == dmp.phase # "raised"

(***************************************************************************)
(* The threaded clients: the main thread, the receive thread and the       *)
(* socket of test_ucdaemon_control.py, monitor_and_send.py and             *)
(* test_ucnet_network.py                                                   *)
(***************************************************************************)
\* monitor_and_send.build_subscribe: json.dumps of the Subscribe request, 269 bytes
MONITOR_SUBSCRIBE_JSON ==
    <<123, 34, 105, 100, 34, 58, 32, 34, 83, 117, 98, 115, 99, 114, 105, 98, 101, 34, 44,
      32, 34, 99, 108, 105, 101, 110, 116, 78, 97, 109, 101, 34, 58, 32, 34, 70, 97, 100,
      101, 114, 66, 114, 105, 100, 103, 101, 34, 44, 32, 34, 99, 108, 105, 101, 110, 116,
      73, 110, 116, 101, 114, 110, 97, 108, 78, 97, 109, 101, 34, 58, 32, 34, 102, 97, 100,
      101, 114, 98, 114, 105, 100, 103, 101, 34, 44, 32, 34, 99, 108, 105, 101, 110, 116,
      84, 121, 112, 101, 34, 58, 32, 34, 79, 78, 80, 67, 34, 44, 32, 34, 99, 108, 105, 101,
      110, 116, 68, 101, 115, 99, 114, 105, 112, 116, 105, 111, 110, 34, 58, 32, 34, 70,
      97, 100, 101, 114, 66, 114, 105, 100, 103, 101, 32, 77, 73, 68, 73, 32, 67, 111, 110,
      116, 114, 111, 108, 108, 101, 114, 34, 44, 32, 34, 99, 108, 105, 101, 110, 116, 73,
      100, 101, 110, 116, 105, 102, 105, 101, 114, 34, 58, 32, 34, 70, 97, 100, 101, 114,
      66, 114, 105, 100, 103, 101, 45, 48, 48, 49, 34, 44, 32, 34, 99, 108, 105, 101, 110,
      116, 79, 112, 116, 105, 111, 110, 115, 34, 58, 32, 34, 112, 101, 114, 109, 32, 117,
      115, 101, 114, 115, 32, 108, 101, 118, 108, 32, 114, 101, 100, 117, 32, 114, 116, 97,
      110, 34, 44, 32, 34, 99, 108, 105, 101, 110, 116, 69, 110, 99, 111, 100, 105, 110,
      103, 34, 58, 32, 50, 51, 49, 48, 54, 125>>

\* test_ucnet_network.build_subscribe_packet: json.dumps of the Subscribe request, 263 bytes
NETWORK_SUBSCRIBE_JSON ==
    <<123, 34, 105, 100, 34, 58, 32, 34, 83, 117, 98, 115, 99, 114, 105, 98, 101, 34, 44,
      32, 34, 99, 108, 105, 101, 110, 116, 78, 97, 109, 101, 34, 58, 32, 34, 70, 97, 100,
      101, 114, 66, 114, 105, 100, 103, 101, 34, 44, 32, 34, 99, 108, 105, 101, 110, 116,
      73, 110, 116, 101, 114, 110, 97, 108, 78, 97, 109, 101, 34, 58, 32, 34, 102, 97, 100,
      101, 114, 98, 114, 105, 100, 103, 101, 34, 44, 32, 34, 99, 108, 105, 101, 110, 116,
      84, 121, 112, 101, 34, 58, 32, 34, 80, 67, 34, 44, 32, 34, 99, 108, 105, 101, 110,
      116, 68, 101, 115, 99, 114, 105, 112, 116, 105, 111, 110, 34, 58, 32, 34, 70, 97,
      100, 101, 114, 66, 114, 105, 100, 103, 101, 32, 77, 73, 68, 73, 32, 67, 111, 110,
      116, 114, 111, 108, 108, 101, 114, 34, 44, 32, 34, 99, 108, 105, 101, 110, 116, 73,
      100, 101, 110, 116, 105, 102, 105, 101, 114, 34, 58, 32, 34, 70, 97, 100, 101, 114,
      66, 114, 105, 100, 103, 101, 34, 44, 32, 34, 99, 108, 105, 101, 110, 116, 79, 112,
      116, 105, 111, 110, 115, 34, 58, 32, 34, 112, 101, 114, 109, 32, 117, 115, 101, 114,
      115, 32, 108, 101, 118, 108, 32, 114, 101, 100, 117, 32, 114, 116, 97, 110, 34, 44,
      32, 34, 99, 108, 105, 101, 110, 116, 69, 110, 99, 111, 100, 105, 110, 103, 34, 58,
      32, 50, 51, 49, 48, 54, 125>>

\* monitor_and_send.build_hello, build_keepalive and build_subscribe
mon_build_hello     == mon_build_packet(TYPE_HELLO, <<0, 0, 101, 0, 21, 250>>)
mon_build_keepalive == mon_build_packet(TYPE_KA, <<106, 0, 101, 0>>)
mon_build_subscribe ==
    mon_build_packet(TYPE_JSON, <<106, 0, 101, 0>> \o pack_I(Len(MONITOR_SUBSCRIBE_JSON))
                                    \o MONITOR_SUBSCRIBE_JSON)

\* test_ucnet_network.build_hello_packet, build_keepalive_packet and
\* build_subscribe_packet
net_build_hello_packet     == net_build_packet(TYPE_HELLO, <<0, 0, 101, 0, 21, 250>>)
net_build_keepalive_packet == net_build_packet(TYPE_KA, <<>>)
net_build_subscribe_packet ==
    net_build_packet(TYPE_JSON, <<106, 0, 101, 0>> \o pack_I(Len(NETWORK_SUBSCRIBE_JSON))
                                    \o NETWORK_SUBSCRIBE_JSON)

\* 'QT8E24050049/main/ch1/volume'
KEY_DEVICE_MAIN_CH1_VOLUME ==
    <<81, 84, 56, 69, 50, 52, 48, 53, 48, 48, 52, 57, 47, 109, 97, 105, 110, 47, 99, 104,
      49, 47, 118, 111, 108, 117, 109, 101>>

\* monitor_and_send.main, lines 205-209
paths_to_try == <<KEY_MAIN_CH1_VOLUME, KEY_DEVICE_MAIN_CH1_VOLUME, KEY_MAIN_OUT_VOLUME>>

\* monitor_and_send.main, line 197: range(10)
KeepaliveRounds == 10

ThreadedClients == {"UCDaemonClient", "monitor_and_send", "test_ucnet_network"}

\* chunks the peer may have in flight towards the client
MaxPending == 1

\* the Hello, Subscribe and KeepAlive frames of each client
KeepAliveOf(c) ==
    CASE c = "UCDaemonClient"     -> build_keepalive_packet
      [] c = "monitor_and_send"   -> mon_build_keepalive
      [] c = "test_ucnet_network" -> net_build_keepalive_packet

\* a client that opens the session with its keepalive frame
KeepAliveFirst(c) == KeepAliveOf(c)

HelloOf(c) ==
    CASE c = "UCDaemonClient"     -> build_hello_packet
      [] c = "monitor_and_send"   -> mon_build_hello
      [] c = "test_ucnet_network" -> net_build_hello_packet

SubscribeOf(c) ==
    CASE c = "UCDaemonClient"     -> ucd_build_subscribe_packet
      [] c = "monitor_and_send"   -> mon_build_subscribe
      [] c = "test_ucnet_network" -> net_build_subscribe_packet

\* the state before main() has opened the socket
InitThreads ==
    \E c \in ThreadedClients :
        thr = [client |-> c, main |-> "start", t |-> "unstarted",
               sock |-> "None", fd |-> "none",
               running |-> FALSE, stop_event |-> FALSE, stop_flag |-> FALSE,
               peer |-> "open", pending |-> 0, sent |-> <<>>,
               kas |-> 0, tried |-> 0, cmds |-> 0, last |-> "none"]

\* where the main thread goes when a send raises: connect() returns False and
\* main calls sys.exit(1) (test_ucdaemon_control lines 150-153 and 313-316),
\* the exception ends monitor_and_send.main, or test_ucnet_network.main runs
\* its finally block (lines 250-259)
HandshakeFailure(c) == IF c = "test_ucnet_network" THEN "shutdown" ELSE "exit"
\* the same for a send of the command loop: test_ucdaemon_control.main runs
\* its finally block (line 370), test_ucnet_network.main breaks (line 246)
CommandFailure(c) == IF c = "UCDaemonClient" THEN "disconnect" ELSE "shutdown"

\* sock.send / sock.sendall: the frame is written, or the call raises because
\* the peer has closed the connection and nothing is written
Sends(written, failure) ==
    \/ thr' = written
    \/ /\ thr.peer = "closed"
       /\ thr' = [thr EXCEPT !.main = failure]

\* the socket is connected and the receive thread started: connect() lines
\* 136-145, monitor_and_send.main lines 160-175, test_ucnet_network.main
\* lines 193-202
ThrStart ==
    /\ thr.main = "start"
    /\ \/ thr' = [thr EXCEPT !.sock = "socket", !.fd = "open",
                             !.running = (thr.client = "UCDaemonClient"),
                             !.t = IF thr.client = "test_ucnet_network"
                                   THEN "settimeout" ELSE "test",
                             !.main = "hello"]
       \* UCDaemonClient.connect, lines 137-138 and 151-153: self.sock is
       \* the new socket, sock.connect raises and connect() returns False
       \/ /\ thr.client = "UCDaemonClient"
          /\ thr' = [thr EXCEPT !.sock = "socket", !.fd = "unconnected",
                                !.main = "exit"]
    /\ UNCHANGED notThreads

\* _send_hello lines 166-167, monitor_and_send.main line 179, do_handshake
\* lines 158-159
ThrSendHello ==
    /\ thr.main = "hello"
    /\ Sends([thr EXCEPT !.sent = Append(thr.sent, HelloOf(thr.client)),
                         !.main = "subscribe"],
             HandshakeFailure(thr.client))
    /\ UNCHANGED notThreads

\* _send_hello lines 173-174, monitor_and_send.main line 184, do_handshake
\* lines 164-165
ThrSendSubscribe ==
    /\ thr.main = "subscribe"
    /\ Sends([thr EXCEPT !.sent = Append(thr.sent, SubscribeOf(thr.client)),
                         !.main = "keepalive"],
             HandshakeFailure(thr.client))
    /\ UNCHANGED notThreads

\* _send_hello lines 180-181, monitor_and_send.main line 189, do_handshake
\* lines 170-171
ThrSendKeepAlive ==
    /\ thr.main = "keepalive"
    /\ Sends([thr EXCEPT !.sent = Append(thr.sent, KeepAliveOf(thr.client)),
                         !.main = "ready"],
             HandshakeFailure(thr.client))
    /\ UNCHANGED notThreads

\* monitor_and_send.main, lines 197-199: one round of the keepalive loop
MonKeepalive ==
    /\ thr.client = "monitor_and_send" /\ thr.main = "ready"
    /\ thr.kas < KeepaliveRounds
    /\ Sends([thr EXCEPT !.sent = Append(thr.sent, mon_build_keepalive),
                         !.kas = thr.kas + 1],
             "exit")
    /\ UNCHANGED notThreads

\* monitor_and_send.main, lines 211-215: one PS packet of paths_to_try
MonTryPath ==
    /\ thr.client = "monitor_and_send" /\ thr.main = "ready"
    /\ thr.kas = KeepaliveRounds /\ thr.tried < Len(paths_to_try)
    /\ Sends([thr EXCEPT !.sent = Append(thr.sent,
                                      mon_build_param_ps(paths_to_try[thr.tried + 1],
                                                         -10000)),
                         !.tried = thr.tried + 1],
             "exit")
    /\ UNCHANGED notThreads

\* monitor_and_send.main, line 221: stop_event.set()
MonStop ==
    /\ thr.client = "monitor_and_send" /\ thr.main = "ready"
    /\ thr.kas = KeepaliveRounds /\ thr.tried = Len(paths_to_try)
    /\ thr' = [thr EXCEPT !.stop_event = TRUE, !.main = "close"]
    /\ UNCHANGED notThreads

\* test_ucdaemon_control.main, command 'k': send_keepalive (lines 296-300)
ThrUcdKeepalive ==
    /\ thr.client = "UCDaemonClient" /\ thr.main = "ready"
    /\ thr.cmds < MaxCommands
    /\ IF thr.sock = "None"
       THEN thr' = [thr EXCEPT !.cmds = thr.cmds + 1]
       ELSE Sends([thr EXCEPT !.sent = Append(thr.sent, build_keepalive_packet),
                              !.cmds = thr.cmds + 1],
                  CommandFailure(thr.client))
    /\ UNCHANGED notThreads

\* test_ucdaemon_control.main, command 'm': set_main_volume and set_parameter
\* (lines 275-290)
ThrUcdSetParameter(value) ==
    /\ thr.client = "UCDaemonClient" /\ thr.main = "ready"
    /\ thr.cmds < MaxCommands
    /\ IF thr.sock = "None"
       THEN thr' = [thr EXCEPT !.cmds = thr.cmds + 1]
       ELSE Sends([thr EXCEPT !.sent = Append(thr.sent,
                                  build_parameter_packet(KEY_MAIN_OUT_VOLUME,
                                                         clamp01(value))),
                              !.cmds = thr.cmds + 1],
                  CommandFailure(thr.client))
    /\ UNCHANGED notThreads

\* test_ucnet_network.main, command 'm' (lines 226-246)
NetSetMain(value) ==
    /\ thr.client = "test_ucnet_network" /\ thr.main = "ready"
    /\ thr.cmds < MaxCommands
    /\ Sends([thr EXCEPT !.sent = Append(thr.sent,
                             net_build_parameter_value_packet(KEY_MAIN_CH1_VOLUME,
                                                              clamp01(value))),
                         !.cmds = thr.cmds + 1],
             CommandFailure(thr.client))
    /\ UNCHANGED notThreads

\* disconnect, line 157, reached from the finally block of main (line 370):
\* self.running = False
ThrDisconnect ==
    /\ thr.client = "UCDaemonClient" /\ thr.main \in {"ready", "disconnect"}
    /\ thr' = [thr EXCEPT !.running = FALSE, !.main = "close"]
    /\ UNCHANGED notThreads

\* test_ucnet_network.main, lines 255-258: sock.shutdown(SHUT_RDWR); the
\* OSError of a connection that the peer has ended is ignored
NetShutdown ==
    /\ thr.client = "test_ucnet_network" /\ thr.main \in {"ready", "shutdown"}
    /\ \/ thr' = [thr EXCEPT !.fd = "shutdown", !.main = "close"]
       \/ /\ thr.peer = "closed"
          /\ thr' = [thr EXCEPT !.main = "close"]
    /\ UNCHANGED notThreads

\* sock.close(): disconnect line 159, monitor_and_send.main line 222,
\* test_ucnet_network.main line 259
ThrClose ==
    /\ thr.main = "close"
    /\ thr' = [thr EXCEPT !.fd = "closed",
                          !.main = IF thr.client = "UCDaemonClient"
                                   THEN "unset" ELSE "done"]
    /\ UNCHANGED notThreads

\* disconnect, line 160: self.sock = None
ThrUnset ==
    /\ thr.client = "UCDaemonClient" /\ thr.main = "unset"
    /\ thr' = [thr EXCEPT !.sock = "None", !.main = "done"]
    /\ UNCHANGED notThreads

\* the peer sends a chunk
ThrPeerSends ==
    /\ thr.main \notin {"start", "exit"} /\ thr.peer = "open"
    /\ thr.pending < MaxPending
    /\ thr' = [thr EXCEPT !.pending = thr.pending + 1]
    /\ UNCHANGED notThreads

\* the peer closes the connection
ThrPeerCloses ==
    /\ thr.main \notin {"start", "exit"} /\ thr.peer = "open"
    /\ thr' = [thr EXCEPT !.peer = "closed"]
    /\ UNCHANGED notThreads

\* the receive thread is running: it was started, has not returned, and the
\* process has not exited
Receiving(pc) == thr.main # "exit" /\ thr.t = pc

\* what the loop test reads: self.running, stop_event.is_set(), stop_flag[0]
LoopCondition ==
    CASE thr.client = "UCDaemonClient"     -> thr.running
      [] thr.client = "monitor_and_send"   -> ~thr.stop_event
      [] thr.client = "test_ucnet_network" -> ~thr.stop_flag

\* recv_loop, line 137: sock.settimeout(0.5), outside the try statement; on
\* a closed socket it raises and the thread ends
NetSetTimeout ==
    /\ Receiving("settimeout")
    /\ thr' = [thr EXCEPT !.t = IF thr.fd = "closed" THEN "exited" ELSE "test"]
    /\ UNCHANGED notThreads

\* the loop test: _receive_loop line 214, receiver_thread line 99, recv_loop
\* line 139
ThrLoopTest ==
    /\ Receiving("test")
    /\ thr' = [thr EXCEPT !.t = IF LoopCondition THEN "load" ELSE "exited"]
    /\ UNCHANGED notThreads

\* the socket whose recv is called: _receive_loop line 216 reads self.sock,
\* which is None after disconnect (AttributeError); the two functions hold
\* the socket in a parameter
ThrLoadSock ==
    /\ Receiving("load")
    /\ thr' = [thr EXCEPT !.t = IF thr.client = "UCDaemonClient" /\ thr.sock = "None"
                                THEN "except" ELSE "recv"]
    /\ UNCHANGED notThreads

\* recv finds nothing to read on a live connection and waits
ThrRecvWaits ==
    /\ Receiving("recv")
    /\ thr.fd = "open" /\ thr.pending = 0 /\ thr.peer = "open"
    /\ thr' = [thr EXCEPT !.t = "waiting"]
    /\ UNCHANGED notThreads

\* recv returns data, which the loop body parses (_receive_loop lines
\* 217-241, receiver_thread lines 104-143, recv_loop lines 144-148)
ThrRecvData ==
    /\ Receiving("recv") \/ Receiving("waiting")
    /\ thr.fd \in {"open", "shutdown"} /\ thr.pending > 0
    /\ thr' = [thr EXCEPT !.pending = thr.pending - 1, !.t = "test", !.last = "data"]
    /\ UNCHANGED notThreads

\* recv returns b'': _receive_loop skips the body (line 217) and goes on,
\* receiver_thread (lines 102-103) and recv_loop (lines 142-143) break
ThrRecvEof ==
    /\ Receiving("recv") \/ Receiving("waiting")
    /\ \/ thr.fd = "shutdown"
       \/ thr.fd = "open" /\ thr.pending = 0 /\ thr.peer = "closed"
    /\ thr' = [thr EXCEPT !.t = IF thr.client = "UCDaemonClient"
                                THEN "test" ELSE "exited",
                          !.last = "eof"]
    /\ UNCHANGED notThreads

\* the wait ends with socket.timeout: pass (_receive_loop line 242) or
\* continue (receiver_thread line 146, recv_loop line 150)
ThrRecvTimeout ==
    /\ Receiving("waiting")
    /\ thr' = [thr EXCEPT !.t = "test", !.last = "timeout"]
    /\ UNCHANGED notThreads

\* recv raises OSError on the closed socket
ThrRecvError ==
    /\ Receiving("recv") \/ Receiving("waiting")
    /\ thr.fd = "closed"
    /\ thr' = [thr EXCEPT !.t = "except", !.last = "error"]
    /\ UNCHANGED notThreads

\* a handler that goes on with the loop instead of breaking
ThrExceptContinues ==
    /\ Receiving("except")
    /\ thr' = [thr EXCEPT !.t = "test"]
    /\ UNCHANGED notThreads

\* the handler breaks: _receive_loop lines 244-247, receiver_thread lines
\* 147-150, recv_loop lines 151-152
ThrExcept ==
    /\ Receiving("except")
    /\ thr' = [thr EXCEPT !.t = "exited"]
    /\ UNCHANGED notThreads

\* the steps of the receive thread
ReceiveThread ==
    \/ NetSetTimeout
    \/ ThrLoopTest
    \/ ThrLoadSock
    \/ ThrRecvWaits
    \/ ThrRecvData
    \/ ThrRecvEof
    \/ ThrRecvTimeout
    \/ ThrRecvError
    \/ ThrExcept

NextThreads ==
    \/ ThrStart
    \/ ThrSendHello
    \/ ThrSendSubscribe
    \/ ThrSendKeepAlive
    \/ MonKeepalive
    \/ MonTryPath
    \/ MonStop
    \/ ThrUcdKeepalive
    \/ ThrDisconnect
    \/ NetShutdown
    \/ ThrClose
    \/ ThrUnset
    \/ ThrPeerSends
    \/ ThrPeerCloses
    \/ NetSetTimeout
    \/ ThrLoopTest
    \/ ThrLoadSock
    \/ ThrRecvWaits
    \/ ThrRecvData
    \/ ThrRecvEof
    \/ ThrRecvTimeout
    \/ ThrRecvError
    \/ ThrExcept
    \/ \E value \in UcdValues : ThrUcdSetParameter(value)
    \/ \E value \in UcdValues : NetSetMain(value)

StartThreads == InitThreads /\ IdleBut("threads")

\* the receive thread is scheduled as long as it can take a step: every recv
\* returns, at the latest when its timeout expires (settimeout(0.1) in
\* connect, settimeout(1.0) in monitor_and_send.main, settimeout(0.5) in
\* recv_loop)
SpecThreads == StartThreads /\ [][NextThreads]_vars /\ WF_vars(ReceiveThread)

\* C24: when recv has returned zero bytes in UCDaemonClient, _receive_loop
\* eventually returns and running is False (or the process has exited).
EofClosesSession ==
    (thr.client = "UCDaemonClient" /\ thr.last = "eof")
        ~> (thr.main = "exit" \/ (thr.t = "exited" /\ ~thr.running))

\* C35: when UCDaemonClient.connect() has returned False, running is False,
\* no receive thread is left running and self.sock is None, so that
\* set_parameter and send_keepalive refuse to write.
FailedConnectClosed ==
    (thr.client = "UCDaemonClient" /\ thr.main = "exit") =>
        /\ ~thr.running
        /\ thr.t \in {"unstarted", "exited"}
        /\ thr.sock = "None"

\* C25: in each threaded client, once the main thread has closed the
\* transport, the receive thread eventually leaves its loop, wherever it was
\* (loop test, pending read, exception handler) when the close happened.
Cancellation == (thr.main = "done") ~> (thr.t = "exited")

\* C25 witness: the receive thread of test_ucnet_network, whose stop flag is
\* never set, has left its loop through the OSError of a recv on the socket
\* that main closed
CancellationWitness ==
    /\ thr.client = "test_ucnet_network" /\ thr.main = "done"
    /\ ~thr.stop_flag /\ thr.fd = "closed"
    /\ thr.t = "exited" /\ thr.last = "error"

(***************************************************************************)
(* The order of the frames written on a connection                         *)
(***************************************************************************)
FrameTag(frame) == Slice(frame, 6, 8)

\* the frames written on one connection so far start with Hello, then
\* Subscribe, and hold no keepalive or parameter frame before the third
InHandshakeOrder(frames) ==
    /\ Len(frames) >= 1 => FrameTag(frames[1]) = TYPE_HELLO
    /\ Len(frames) >= 2 => FrameTag(frames[2]) = TYPE_JSON
    /\ \A i \in 1..Len(frames) :
           FrameTag(frames[i]) \in {TYPE_KA, TYPE_PV, TYPE_PS} => i >= 3

\* the handshake scripts and the threaded clients together
StartHandshake == StartSession \/ StartThreads
NextHandshake  == NextSession \/ NextThreads
SpecHandshake  == StartHandshake /\ [][NextHandshake]_vars

\* C22: on every connection opened by the scripts the first frame written
\* is Hello (UM), the second Subscribe (JM), and every keepalive or parameter
\* frame is written after both.
HandshakeOrder ==
    /\ ses.script # "none" => InHandshakeOrder(ses.sent)
    /\ thr.client # "none" => InHandshakeOrder(thr.sent)

\* C22 witness: a threaded client has written a parameter frame after its
\* handshake and its keepalives
HandshakeOrderWitness ==
    /\ thr.client # "none"
    /\ Len(thr.sent) >= 4
    /\ IsParameterFrame(thr.sent[Len(thr.sent)])
    /\ FrameTag(thr.sent[3]) = TYPE_KA

(***************************************************************************)
(* quick_test.py: main and its response-drain loop, recv by recv           *)
(***************************************************************************)
MaxDrainChunks == 3

\* ses.conn is the peer's end of the connection, ses.pending the chunks it
\* has sent that main has not read, ses.last how the last recv ended
InitDrain ==
    ses = [script |-> "quick_test", pc |-> "hello", peer |-> <<>>,
           conn |-> "open", pending |-> 0, chunks |-> 0, sent |-> <<>>,
           last |-> "none", recvs |-> 0]

\* sock.send: the frame is written, or the call raises because the peer has
\* reset the connection; nothing in main catches that
QuickSends(frame, next) ==
    \/ ses' = [ses EXCEPT !.sent = Append(ses.sent, frame), !.pc = next]
    \/ /\ ses.conn = "reset"
       /\ ses' = [ses EXCEPT !.pc = "raised"]

\* line 89
QuickHello ==
    /\ ses.script = "quick_test" /\ ses.pc = "hello"
    /\ QuickSends(quick_build_hello, "subscribe")
    /\ UNCHANGED notSession

\* line 91
QuickSubscribe ==
    /\ ses.pc = "subscribe"
    /\ QuickSends(quick_build_subscribe, "drain")
    /\ UNCHANGED notSession

\* line 97: recv returns a chunk, the loop goes on
QuickRecvData ==
    /\ ses.pc = "drain" /\ ses.pending > 0
    /\ ses' = [ses EXCEPT !.pending = ses.pending - 1, !.last = "data",
                          !.recvs = IF ses.recvs < MaxDrainChunks
                                    THEN ses.recvs + 1 ELSE ses.recvs]
    /\ UNCHANGED notSession

\* line 97: the peer has closed, recv returns b'' at once, the loop goes on
QuickRecvEof ==
    /\ ses.pc = "drain" /\ ses.pending = 0 /\ ses.conn = "closed"
    /\ ses' = [ses EXCEPT !.last = "eof"]
    /\ UNCHANGED notSession

\* lines 98-99: nothing arrives for 5 seconds, socket.timeout leaves the loop
QuickRecvTimeout ==
    /\ ses.pc = "drain" /\ ses.pending = 0 /\ ses.conn = "open"
    /\ ses' = [ses EXCEPT !.last = "timeout", !.pc = "send1"]
    /\ UNCHANGED notSession

\* line 97: recv raises ConnectionResetError, which line 98 does not catch
QuickRecvError ==
    /\ ses.pc = "drain" /\ ses.pending = 0 /\ ses.conn = "reset"
    /\ ses' = [ses EXCEPT !.last = "error", !.pc = "raised"]
    /\ UNCHANGED notSession

\* lines 104-107
QuickParam ==
    /\ ses.script = "quick_test" /\ ses.pc = "send1" /\ ses.last = "timeout"
    /\ QuickSends(quick_build_param(KEY_MAIN_OUT_VOLUME, 100), "close")
    /\ UNCHANGED notSession

\* line 110
QuickClose ==
    /\ ses.script = "quick_test" /\ ses.pc = "close" /\ ses.last = "timeout"
    /\ ses' = [ses EXCEPT !.pc = "closed"]
    /\ UNCHANGED notSession

\* the peer sends a chunk
QuickPeerSends ==
    /\ ses.pc \in {"hello", "subscribe", "drain", "send1", "close"}
    /\ ses.conn = "open" /\ ses.chunks < MaxDrainChunks
    /\ ses' = [ses EXCEPT !.pending = ses.pending + 1, !.chunks = ses.chunks + 1]
    /\ UNCHANGED notSession

\* the peer closes the connection
QuickPeerCloses ==
    /\ ses.pc \in {"hello", "subscribe", "drain", "send1", "close"}
    /\ ses.conn = "open"
    /\ ses' = [ses EXCEPT !.conn = "closed"]
    /\ UNCHANGED notSession

\* the peer resets the connection: what it had sent is lost
QuickPeerResets ==
    /\ ses.pc \in {"hello", "subscribe", "drain", "send1", "close"}
    /\ ses.conn = "open"
    /\ ses' = [ses EXCEPT !.conn = "reset", !.pending = 0]
    /\ UNCHANGED notSession

\* the steps of main
QuickMain ==
    \/ QuickHello
    \/ QuickSubscribe
    \/ QuickRecvData
    \/ QuickRecvEof
    \/ QuickRecvTimeout
    \/ QuickRecvError
    \/ QuickParam
    \/ QuickClose

NextDrain ==
    \/ QuickHello
    \/ QuickSubscribe
    \/ QuickRecvData
    \/ QuickRecvEof
    \/ QuickRecvTimeout
    \/ QuickRecvError
    \/ QuickParam
    \/ QuickClose
    \/ QuickPeerSends
    \/ QuickPeerCloses
    \/ QuickPeerResets

StartDrain == InitDrain /\ IdleBut("session")

\* main keeps running: a step of it that stays possible is taken
SpecDrain == StartDrain /\ [][NextDrain]_vars /\ WF_vars(QuickMain)

\* C36: whatever the peer does after the handshake, the drain loop of
\* quick_test.main is left and the parameter frame is sent.
DrainLoopTerminates ==
    (ses.script = "quick_test" /\ ses.pc = "drain")
        ~> (ses.pc \in {"close", "closed"})


====
